---- MODULE Spec2Model ----
(***************************************************************************)
(* A model of the codebase-indexing core of the NextGenAI VS Code          *)
(* extension: the change watcher / debouncer (FileWatcherIndexer), the     *)
(* manual index triggers of the extension and of the chat view, and the    *)
(* index store (IndexStorage).                                             *)
(*                                                                         *)
(* JavaScript runs every callback to its next await without interruption,  *)
(* so each action below is one such run-to-completion segment: an event    *)
(* handler up to its first await, or the continuation of an await.         *)
(* The first workspace folder is fixed for the lifetime of an extension    *)
(* host, so vscode.workspace.workspaceFolders?.[0] is taken to be defined. *)
(***************************************************************************)
EXTENDS Integers, Sequences, FiniteSets, Bags, TLC

\* ---------------------------------------------------------------- bounds
\* Filesystem change notifications delivered in one behaviour.
MaxChanges == 2
\* Runs of reindexWorkspace the model can hold in flight at the same time.
MaxReindexes == 2
\* Manual operations (index command, chat index, clear command) in flight at the same time.
MaxManual == 1
\* Timeout handles the runtime can hold at the same time.
MaxTimers == 2
\* Files in an index handed to the store.
MaxFiles == 2
\* Characters in an ignore pattern handed to matchesPattern.
MaxPattern == 3
\* Characters in a path handed to matchesPattern.
MaxPath == 3
\* Declarations and stretches of other text in a content handed to extractSymbols.
MaxDeclared == 3
\* Files in an index handed to searchFiles.
MaxSearched == 2
\* Characters in a query handed to searchFiles.
MaxQuery == 3
\* The largest limit handed to searchFiles, besides its default.
MaxLimit == 2
\* Files of an Index saved in the store of several workspaces.
MaxStored == 1
\* Calls of provideInlineCompletionItems.
MaxInvocations == 3
\* Chunks one completion stream delivers.
MaxChunks == 2
\* Calls of onSendMessage.
MaxSends == 2
\* Conversations created in the chat store.
MaxConversations == 3

\* The absent snapshot (null) and the absent timer handle (null).
Null == 0

VARIABLES
  fileWatcher,      \* FileWatcherIndexer.fileWatcher is not null
  subscriptions,    \* the FileSystemWatchers that startWatching created and nothing disposed
  debounceTimer,    \* FileWatcherIndexer.debounceTimer: a handle, or Null
  armedTimers,      \* the runtime's timeouts that are scheduled and not yet fired or cleared
  isIndexing,       \* FileWatcherIndexer.isIndexing
  pendingChanges,   \* FileWatcherIndexer.pendingChanges
  currentIndex,     \* FileWatcherIndexer.currentIndex: a snapshot, or Null
  onIndexComplete,  \* FileWatcherIndexer.onIndexComplete is not null
  tasks,            \* bag of the asynchronous operations that are awaiting a walk, a save or a delete
  fsVersion,        \* the state of the workspace's file tree: one more per delivered change
  \* The index store of the workspace, file by file (IndexStorage). The watcher
  \* specifications take a snapshot to be the version of the tree it was walked
  \* from and a saveIndex call to be one task; the store specification takes
  \* the calls apart and leaves the watcher alone.
  metadata,         \* the metadata document <key>.json: {} when absent, else {document}
  blobs,            \* the content blobs <key>/contents/<id>.txt: a function from ids to contents
  storeCall,        \* the store call in progress or the one that ended last: [pc, index, next,
                    \*   wroteDocument, written, removed, failed]; index is the Index of the last saveIndex,
                    \*   which its caller still holds in memory
  loaded,           \* what loadIndex returned, when it is the last call made on the store
  described,        \* what getIndexMetadata returned, when it is the last call made on the store
  workspaces,       \* the storage path with more workspaces than one: for every workspace name
                    \*   (key) its metadata document and its content blobs, as above
  \* The indexer (CodebaseIndexer), walking one tree entry by entry. The
  \* indexer specification takes the walk apart and leaves the rest alone.
  gitignorePatterns,  \* CodebaseIndexer.gitignorePatterns
  walk,             \* the indexWorkspace call in progress or the one that returned last:
                    \*   [pc, tree, stack, index, scanned, failed, unread]
  call,             \* a call of one of the indexer's methods that keep no state
                    \*   (matchesPattern, extractSymbols, searchFiles): [method, done, ...]
  \* The inline completion provider (InlineCompletionProvider).
  ongoingMap,       \* InlineCompletionProvider.ongoingMap: for a key the Ongoing it holds,
                    \*   named by the invocation that created it
  invocations,      \* the provideInlineCompletionItems calls made so far, in order:
                    \*   [key, cause, pc, items]
  streams,          \* for an invocation the Ongoing it created and its streamComplete call:
                    \*   [key, buffer, aborted, pc]
  refreshes,        \* the editor.action.inlineSuggest.trigger commands not yet acted on,
                    \*   each named by the stream whose chunk issued it
  \* The chat view (ChatViewProvider) and its store (ChatStorage).
  currentConversationId,  \* ChatViewProvider.currentConversationId, or Null
  conversations,    \* for every conversation created so far, by its number, whether its
                    \*   row is still in the conversations table
  messages,         \* the rows of the messages table, in the order of their insertion:
                    \*   [conversationId, role, send]
  sends,            \* the onSendMessage calls made so far, in order: [pc, stored]
  creating,         \* createConversation calls of onNewConversation not yet settled
  \* History variables: they record what the program did and steer nothing.
  probes,           \* which of the history variables below a specification records
  lastOp,           \* "ops": the segment that ran last, [op, origin, outcome, stored, emitted]:
                    \*   stored is the snapshot whose metadata document it wrote (or Null), emitted
                    \*   the subscriber call it made: the snapshot and the isIndexing flag at the call
  bursts,           \* "debounce": bursts of notifications begun (a notification with no timeout armed
                    \*   and no re-index running begins one)
  timerRuns,        \* "debounce": re-indexes started by the debounce timer
  disturbed,        \* "debounce": a stop, restart, forceReindex or a notification during a re-index
                    \*   has taken part, which the debounce property does not speak about
  dropped,          \* "debounce": a due timer callback found no snapshot held
  unobserved,       \* "fresh": what became of the last notification (see FreshNext)
  walked            \* "walks": for a tree, the aggregates of the first Index a walk of it
                    \*   returned without a failed readdir, stat or ignore-file read

watcherVars == <<fileWatcher, subscriptions, debounceTimer, armedTimers, isIndexing,
                 pendingChanges, currentIndex, onIndexComplete>>
storeVars == <<metadata, blobs, storeCall, loaded, described, workspaces>>
walkVars == <<gitignorePatterns, walk>>
inlineVars == <<ongoingMap, invocations, streams, refreshes>>
chatVars == <<currentConversationId, conversations, messages, sends, creating>>
viewVars == <<inlineVars, chatVars>>
historyVars == <<probes, lastOp, bursts, timerRuns, disturbed, dropped, unobserved, walked>>
vars == <<fileWatcher, subscriptions, debounceTimer, armedTimers, isIndexing, pendingChanges,
          currentIndex, onIndexComplete, tasks, fsVersion,
          metadata, blobs, storeCall, loaded, described, workspaces,
          gitignorePatterns, walk, call, inlineVars, chatVars,
          probes, lastOp, bursts, timerRuns, disturbed, dropped, unobserved, walked>>

\* The watcher object and its timeouts as one value, so that the methods
\* below are functions from watcher to watcher and compose as in the code.
W == [fileWatcher |-> fileWatcher, subscriptions |-> subscriptions,
      debounceTimer |-> debounceTimer,
      armedTimers |-> armedTimers, isIndexing |-> isIndexing,
      pendingChanges |-> pendingChanges, currentIndex |-> currentIndex,
      onIndexComplete |-> onIndexComplete]

SetW(w) ==
  /\ fileWatcher' = w.fileWatcher
  /\ subscriptions' = w.subscriptions
  /\ debounceTimer' = w.debounceTimer
  /\ armedTimers' = w.armedTimers
  /\ isIndexing' = w.isIndexing
  /\ pendingChanges' = w.pendingChanges
  /\ currentIndex' = w.currentIndex
  /\ onIndexComplete' = w.onIndexComplete

NoEmission == [index |-> Null, isIndexing |-> FALSE]

Op(op, origin, outcome) ==
  [op |-> op, origin |-> origin, outcome |-> outcome, stored |-> Null,
   emitted |-> NoEmission]

\* ------------------------------------------------------------- timeouts
\* clearTimeout(handle): a handle that already fired or was cleared is ignored.
clearTimeout(armed, handle) == armed \ {handle}

HasFreeTimer(armed) == \E t \in 1..MaxTimers : t \notin armed

\* setTimeout returns a handle that no scheduled timeout has.
setTimeout(armed) ==
  CHOOSE t \in 1..MaxTimers : t \notin armed /\ \A u \in 1..MaxTimers : u \notin armed => t <= u

\* ------------------------------------------------- FileWatcherIndexer
stopWatching(w) ==
  LET a == IF w.fileWatcher
           THEN [w EXCEPT !.fileWatcher = FALSE, !.subscriptions = @ - 1]
           ELSE w
  IN  IF a.debounceTimer # Null
      THEN [a EXCEPT !.armedTimers = clearTimeout(a.armedTimers, a.debounceTimer),
                     !.debounceTimer = Null]
      ELSE a

startWatching(w, callback) ==
  LET a == [w EXCEPT !.onIndexComplete = callback]
      b == IF a.fileWatcher THEN stopWatching(a) ELSE a
  IN  [b EXCEPT !.fileWatcher = TRUE, !.subscriptions = @ + 1]

\* onFileChanged as it would be without the clearTimeout of the timer it holds.
onFileChanged_noClear(w) ==
  LET a == [w EXCEPT !.pendingChanges = TRUE]
      t == setTimeout(a.armedTimers)
  IN  [a EXCEPT !.armedTimers = @ \cup {t}, !.debounceTimer = t]

onFileChanged(w) ==
  LET a == [w EXCEPT !.pendingChanges = TRUE]
      cleared == IF a.debounceTimer # Null
                 THEN clearTimeout(a.armedTimers, a.debounceTimer)
                 ELSE a.armedTimers
      t == setTimeout(cleared)
  IN  [a EXCEPT !.armedTimers = cleared \cup {t}, !.debounceTimer = t]

\* A variant of timerCallbackReindexes that does not test isIndexing.
timerCallbackReindexes_ignoresRunning(w) == w.pendingChanges

\* The timeout's arrow function: whether it calls reindexWorkspace.
timerCallbackReindexes(w) == w.pendingChanges /\ ~w.isIndexing

\* reindexWorkspace as it would be without the test of currentIndex.
reindexReturnsEarly_never(w) == FALSE

\* reindexWorkspace's early return.
reindexReturnsEarly(w) == w.currentIndex = Null

\* A variant of reindexBegin that leaves pendingChanges set.
reindexBegin_keepsPending(w) ==
  IF w.currentIndex = Null THEN w ELSE [w EXCEPT !.isIndexing = TRUE]

\* reindexWorkspace up to its first await: the flags, then indexWorkspace is called.
reindexBegin(w) ==
  IF reindexReturnsEarly(w) THEN w
  ELSE [w EXCEPT !.isIndexing = TRUE, !.pendingChanges = FALSE]

\* A variant of reindexAssign that replaces the held snapshot whatever the
\* save did.
reindexAssign_always(w, outcome, index) == [w EXCEPT !.currentIndex = index]

\* A variant of reindexAssign that never replaces the held snapshot.
reindexAssign_keepsOld(w, outcome, index) == w

\* A variant of reindexSettle whose finally block does not re-arm the debounce.
reindexSettle_noRearm(w, outcome, index) ==
  LET a == IF outcome = "ok" THEN [w EXCEPT !.currentIndex = index] ELSE w
  IN  [a EXCEPT !.isIndexing = FALSE]

\* A variant of reindexSettle that resets isIndexing in the try block, not in finally.
reindexSettle_noFinally(w, outcome, index) ==
  LET a == IF outcome = "ok"
           THEN [w EXCEPT !.currentIndex = index, !.isIndexing = FALSE]
           ELSE w
  IN  IF a.pendingChanges THEN onFileChanged(a) ELSE a

\* reindexWorkspace after its awaits: outcome "ok" when the save returned,
\* then the catch and the finally block.
reindexAssign(w, outcome, index) ==
  IF outcome = "ok" THEN [w EXCEPT !.currentIndex = index] ELSE w

reindexSettle(w, outcome, index) ==
  LET a == reindexAssign(w, outcome, index)
      b == [a EXCEPT !.isIndexing = FALSE]
  IN  IF b.pendingChanges THEN onFileChanged(b) ELSE b

\* The subscriber call inside reindexWorkspace's try block: made after
\* currentIndex is assigned and before the finally block runs.
reindexEmits(w, outcome) == outcome = "ok" /\ w.onIndexComplete

reindexEmission(w, index) == [index |-> index, isIndexing |-> w.isIndexing]

setCurrentIndex(w, index) == [w EXCEPT !.currentIndex = index]

\* A variant of forceReindexIsNoop that never declines.
forceReindexIsNoop_never(w) == FALSE

\* forceReindex returns at once while a re-index is running.
forceReindexIsNoop(w) == w.isIndexing

forceReindexBegin(w) ==
  IF forceReindexIsNoop(w) THEN w
  ELSE reindexBegin([w EXCEPT !.pendingChanges = FALSE])

\* ------------------------------------------------------------ indexes
\* The workspace folder.
rootPath == "/w/app"

\* What indexFile derives for the files of a small tree: stat.size, the
\* language of the extension, the content read as UTF-8, its symbols and
\* simpleHash(content) in base 16 ("x" is char code 120 = 0x78).
SourceFiles ==
  { [relativePath |-> "a.ts", language |-> "typescript", content |-> "",
     size |-> 0, lastModified |-> 1, hash |-> "0", symbols |-> << >>],
    [relativePath |-> "a.ts", language |-> "typescript", content |-> "x",
     size |-> 1, lastModified |-> 1, hash |-> "78", symbols |-> << >>],
    [relativePath |-> "b.py", language |-> "python", content |-> "def f():",
     size |-> 8, lastModified |-> 1, hash |-> "22cb206e",
     symbols |-> <<[kind |-> "fn", name |-> "f"]>>] }

\* The ids indexFile can give: file_<Date.now()>_<nine base-36 digits of
\* Math.random()>. Nothing keeps two files of a walk from the same
\* millisecond and the same digits.
Ids == {"file_1_a", "file_1_b"}

\* The CodeFile indexFile pushes.
CodeFile(file, id) ==
  [id |-> id, path |-> <<rootPath, file.relativePath>>,
   relativePath |-> file.relativePath, language |-> file.language,
   content |-> file.content, size |-> file.size,
   lastModified |-> file.lastModified, hash |-> file.hash,
   symbols |-> file.symbols]

RECURSIVE TotalSize(_)
TotalSize(files) ==
  IF files = << >> THEN 0 ELSE Head(files).size + TotalSize(Tail(files))

RECURSIVE CountSymbols(_, _)
CountSymbols(files, kinds) ==
  IF files = << >> THEN 0
  ELSE Len(SelectSeq(Head(files).symbols, LAMBDA sym : sym.kind \in kinds))
       + CountSymbols(Tail(files), kinds)

AllKinds == {"fn", "method", "class", "struct", "interface", "type"}

\* The CodebaseIndex indexWorkspace returns for the files it pushed, in order.
IndexOf(files) ==
  [rootPath |-> rootPath,
   files |-> files,
   totalSize |-> TotalSize(files),
   fileCount |-> Len(files),
   lastIndexed |-> 1,
   languages |-> [l \in {files[i].language : i \in DOMAIN files}
                    |-> Cardinality({i \in DOMAIN files : files[i].language = l})],
   summary |-> [functions |-> CountSymbols(files, {"fn", "method"}),
                classes |-> CountSymbols(files, {"class", "struct"}),
                total |-> CountSymbols(files, AllKinds)]]

\* The walk reads every path once: the files of an index differ in relativePath.
FileLists ==
  {files \in UNION {[1..n -> {CodeFile(f, id) : f \in SourceFiles, id \in Ids}] : n \in 0..MaxFiles} :
     \A i, j \in DOMAIN files : i # j => files[i].relativePath # files[j].relativePath}

Indexes == {IndexOf(files) : files \in FileLists}

\* -------------------------------------------------------- IndexStorage
\* saveIndex: one record of the metadata document.
compactFile(f) ==
  [id |-> f.id, path |-> f.path, relativePath |-> f.relativePath,
   language |-> f.language, size |-> f.size, hash |-> f.hash]

\* saveIndex: the metadata document.
compactIndex(index) ==
  [rootPath |-> index.rootPath,
   fileCount |-> index.fileCount,
   totalSize |-> index.totalSize,
   lastIndexed |-> index.lastIndexed,
   languages |-> index.languages,
   files |-> [i \in DOMAIN index.files |-> compactFile(index.files[i])]]

\* saveFileContents: one blob written under the file's id; a failed write is
\* logged and the loop goes on.
writeBlob(stored, file, written) ==
  IF written THEN (file.id :> file.content) @@ stored ELSE stored

\* loadFileContents: every record of the document with the content of the
\* blob its id names, or '' when that blob cannot be read.
loadFileContents(stored, files, unreadable) ==
  [i \in DOMAIN files |->
     [id |-> files[i].id, path |-> files[i].path,
      relativePath |-> files[i].relativePath, language |-> files[i].language,
      size |-> files[i].size, hash |-> files[i].hash,
      content |-> IF files[i].id \in DOMAIN stored /\ files[i].id \notin unreadable
                  THEN stored[files[i].id] ELSE ""]]

\* loadIndex as it would be if a failed blob read rejected the whole load.
loadIndex_rejectsOnBlob(documents, stored, docReadable, unreadable) ==
  IF documents = {} \/ ~docReadable
     \/ \E d \in documents : \E i \in DOMAIN d.files :
          d.files[i].id \notin DOMAIN stored \/ d.files[i].id \in unreadable
  THEN {}
  ELSE {[rootPath |-> d.rootPath, fileCount |-> d.fileCount,
         totalSize |-> d.totalSize, lastIndexed |-> d.lastIndexed,
         languages |-> d.languages,
         files |-> loadFileContents(stored, d.files, unreadable)] : d \in documents}

\* loadIndex: {} for null (no document, or one that cannot be read), else
\* the document with its files replaced by loadFileContents.
loadIndex(documents, stored, docReadable, unreadable) ==
  IF documents = {} \/ ~docReadable THEN {}
  ELSE {[rootPath |-> d.rootPath, fileCount |-> d.fileCount,
         totalSize |-> d.totalSize, lastIndexed |-> d.lastIndexed,
         languages |-> d.languages,
         files |-> loadFileContents(stored, d.files, unreadable)] : d \in documents}

\* getIndexMetadata: {} for null (no document, or one that cannot be read),
\* else the three counts of the document.
getIndexMetadata(documents, docReadable) ==
  IF documents = {} \/ ~docReadable THEN {}
  ELSE {[fileCount |-> d.fileCount, totalSize |-> d.totalSize,
         lastIndexed |-> d.lastIndexed] : d \in documents}

\* getIndexSummary: the values the summary text is made of, or {} when the
\* call throws because index.summary is undefined.
getIndexSummary(index) ==
  IF "summary" \in DOMAIN index
  THEN {[fileCount |-> index.fileCount, totalSize |-> index.totalSize,
         languages |-> index.languages, functions |-> index.summary.functions,
         classes |-> index.summary.classes, lastIndexed |-> index.lastIndexed]}
  ELSE {}

\* No store call is in progress.
AtRest == storeCall.pc \in {"idle", "returned", "threw", "deleted"}

\* wroteDocument: the call wrote the metadata document; written: the ids whose
\* blob it wrote; removed: what the call found and removed; failed: the
\* file-system operations of the call that failed.
IdleCall ==
  [pc |-> "idle", index |-> IndexOf(<< >>), next |-> 0,
   wroteDocument |-> FALSE, written |-> {}, removed |-> {}, failed |-> {}]

NotLoaded ==
  [done |-> FALSE, clean |-> FALSE, docReadable |-> FALSE, unreadable |-> {},
   result |-> {}]

NotDescribed == [done |-> FALSE, docReadable |-> FALSE, result |-> {}]

\* ------------------------------------------------------ CodebaseIndexer
\* The names a path segment is compared with, as written in the source
\* (the entries with a * are compared literally too).
commonIgnorePaths ==
  { "node_modules", ".npm", "npm-debug.log", "package-lock.json", "yarn.lock",
    "pnpm-lock.yaml", "__pycache__", ".venv", "venv", "env", ".env",
    ".env.local", ".env.*.local", "pip-log.txt", "pip-delete-this-directory.txt",
    ".Python", "build", "develop-eggs", "dist", "downloads", "eggs", ".eggs",
    "lib", "lib64", "parts", "sdist", "var", "wheels", "*.egg-info",
    ".installed.cfg", "*.egg", ".git", ".gitignore", ".gitattributes",
    ".github", ".gitlab", ".hg", ".svn", ".vscode", ".idea", ".sublime-project",
    ".sublime-workspace", ".project", ".pydevproject", ".settings", ".classpath",
    "out", ".next", ".nuxt", ".cache", ".parcel-cache", ".vercel", ".turbo",
    "coverage", ".gradle", "target", ".m2", "cmake-build-debug",
    "cmake-build-release", ".o", ".a", ".so", "vendor", ".gopath", "Cargo.lock",
    ".dockerignore", "Dockerfile", ".DS_Store", "Thumbs.db", ".AppleDouble",
    ".LSOverride", ".TemporaryItems", "*.zip", "*.tar", "*.gz", "*.rar", "tmp",
    "temp", ".tmp", "logs", "*.log" }

commonIgnoreFiles ==
  { ".gitignore", ".env", ".env.local", ".DS_Store", "package-lock.json",
    "yarn.lock", "pnpm-lock.yaml" }

\* indexFile: the size above which a file is skipped.
MaxFileSize == 500 * 1024

\* An entry of the workspace tree: relativePath is path.relative(rootPath,
\* fullPath), parts its split at the separators; a file has the size stat
\* reports and the content readFile decodes.
Dir(relativePath, parts) ==
  [kind |-> "dir", relativePath |-> relativePath, parts |-> parts,
   size |-> 0, content |-> ""]

File(relativePath, parts, size, content) ==
  [kind |-> "file", relativePath |-> relativePath, parts |-> parts,
   size |-> size, content |-> content]

\* The entries the trees are made of. "x{512000}" stands for the letter x
\* 512000 times. a.ts comes in three sizes and .gitignore with two contents.
Entries ==
  { File("a.ts", <<"a.ts">>, 1, "x"),
    File("a.ts", <<"a.ts">>, MaxFileSize, "x{512000}"),
    File("a.ts", <<"a.ts">>, MaxFileSize + 1, "x{512001}"),
    File("notes.txt", <<"notes.txt">>, 5, "hello"),
    File(".gitignore", <<".gitignore">>, 3, "src"),
    File(".gitignore", <<".gitignore">>, 4, "*.ts"),
    Dir("node_modules", <<"node_modules">>),
    File("node_modules/a.ts", <<"node_modules", "a.ts">>, 1, "x"),
    Dir("src", <<"src">>),
    File("src/b.py", <<"src", "b.py">>, 8, "def f():"),
    Dir("src/dist", <<"src", "dist">>),
    File("src/dist/a.ts", <<"src", "dist", "a.ts">>, 1, "x") }

Parent(parts) == SubSeq(parts, 1, Len(parts) - 1)

\* The trees: one entry per path, every entry but the root's inside a
\* directory of the tree.
Trees ==
  {tree \in SUBSET Entries :
     /\ \A e, f \in tree : e.relativePath = f.relativePath => e = f
     /\ \A e \in tree : Len(e.parts) > 1
          => \E d \in tree : d.kind = "dir" /\ d.parts = Parent(e.parts)}

\* A root with a.py of 40 bytes that declares foo, node_modules/x.js and
\* big.txt of 600 KiB ("y{614400}" stands for the letter y 614400 times).
ScenarioRoot ==
  { File("a.py", <<"a.py">>, 40, "# sixteen bytes\ndef foo():\n    return 0\n"),
    Dir("node_modules", <<"node_modules">>),
    File("node_modules/x.js", <<"node_modules", "x.js">>, 1, "x"),
    File("big.txt", <<"big.txt">>, 600 * 1024, "y{614400}") }

\* Seven roots: one without an ignore file, one that ignores *.ts, one that
\* ignores src, one that ignores *.py, one whose ignore file has the two
\* lines ( and src, one with a Java file that declares a class with a
\* method, and the one above.
Roots ==
  { ScenarioRoot,
    { File("D.java", <<"D.java">>, 23, "class D { void m() {} }") },
    { File(".gitignore", <<".gitignore">>, 5, "(\nsrc"),
      File("a.ts", <<"a.ts">>, 1, "x"),
      Dir("src", <<"src">>),
      File("src/b.py", <<"src", "b.py">>, 8, "def f():") },
    { File(".gitignore", <<".gitignore">>, 4, "*.py"),
      File("a.py", <<"a.py">>, 40, "# sixteen bytes\ndef foo():\n    return 0\n") },
    { File("a.ts", <<"a.ts">>, 1, "x"),
      Dir("src", <<"src">>),
      File("src/b.py", <<"src", "b.py">>, 8, "def f():") },
    { File(".gitignore", <<".gitignore">>, 4, "*.ts"),
      File("a.ts", <<"a.ts">>, 1, "x") },
    { File(".gitignore", <<".gitignore">>, 3, "src"),
      Dir("src", <<"src">>),
      File("src/b.py", <<"src", "b.py">>, 8, "def f():") } }

\* Every entry of the trees and of the roots.
AllEntries == Entries \cup UNION Roots

\* readdir as it would be if it listed the entries below the directory at
\* every depth.
readdir_recursive(tree, parts) ==
  {e \in tree : Len(e.parts) > Len(parts) /\ SubSeq(e.parts, 1, Len(parts)) = parts}

\* readdir of the directory with the given parts (<< >> for the root).
readdir(tree, parts) ==
  {e \in tree : Len(e.parts) = Len(parts) + 1 /\ Parent(e.parts) = parts}

\* relativePath.replace(/\\/g, '/').split('/')
split(relativePath) == (CHOOSE e \in AllEntries : e.relativePath = relativePath).parts

\* path.extname(filePath).toLowerCase().substring(1) of the names above.
extname(fileName) ==
  CASE fileName = "a.ts" -> "ts"
    [] fileName = "b.py" -> "py"
    [] fileName = "a.py" -> "py"
    [] fileName = "D.java" -> "java"
    [] fileName = "x.js" -> "js"
    [] fileName = "big.txt" -> "txt"
    [] fileName = "notes.txt" -> "txt"
    [] OTHER -> ""

extensionMap ==
  [ts |-> "typescript", tsx |-> "typescript", js |-> "javascript",
   jsx |-> "javascript", py |-> "python", java |-> "java", cs |-> "csharp",
   cpp |-> "cpp", cc |-> "cpp", cxx |-> "cpp", c |-> "c", go |-> "go",
   rs |-> "rust", php |-> "php", rb |-> "ruby", swift |-> "swift",
   kt |-> "kotlin", scala |-> "scala", hs |-> "haskell", r |-> "r",
   m |-> "matlab", groovy |-> "groovy", sh |-> "shell", bash |-> "bash",
   sql |-> "sql", html |-> "html", htm |-> "html", css |-> "css",
   scss |-> "scss", less |-> "less", json |-> "json", yaml |-> "yaml",
   yml |-> "yaml", xml |-> "xml", md |-> "markdown"]

supportedLanguages ==
  { "typescript", "javascript", "python", "java", "csharp", "cpp", "c", "go",
    "rust", "php", "ruby", "swift", "kotlin", "scala", "haskell", "r",
    "matlab", "groovy", "shell", "bash", "sql", "html", "css", "scss", "less",
    "json", "yaml", "xml", "markdown" }

\* getLanguageFromPath: {} for null, else {language}.
getLanguageFromPath(fileName) ==
  IF extname(fileName) \in DOMAIN extensionMap
  THEN {extensionMap[extname(fileName)]} \cap supportedLanguages
  ELSE {}

\* simpleHash of the contents above, in base 16.
simpleHash(content) ==
  CASE content = "" -> "0"
    [] content = "x" -> "78"
    [] content = "def f():" -> "22cb206e"
    [] content = "hello" -> "5e918d2"
    [] content = "x{512000}" -> "-22680000"
    [] content = "# sixteen bytes\ndef foo():\n    return 0\n" -> "-7adb77b2"
    [] content = "class D { void m() {} }" -> "56cb4b94"

\* What the regular expressions of extractSymbols find in a content: its
\* declarations in the order of their positions, each a function ("fn": a
\* match of funcRegex, or of methodRegex for Java and C#), a class ("class":
\* a match of classRegex) or text that neither matches ("text"). Here for
\* the contents above: def f(): and def foo(): match the funcRegex of
\* Python alone, class D the classRegex of Java and void m() its methodRegex.
exec(content, language) ==
  IF language = "python"
  THEN CASE content = "def f():" -> <<[kind |-> "fn", name |-> "f"]>>
         [] content = "# sixteen bytes\ndef foo():\n    return 0\n" ->
              <<[kind |-> "text", name |-> ""], [kind |-> "fn", name |-> "foo"],
                [kind |-> "text", name |-> ""]>>
         [] OTHER -> << >>
  ELSE IF language = "java"
  THEN CASE content = "class D { void m() {} }" ->
              <<[kind |-> "class", name |-> "D"], [kind |-> "fn", name |-> "m"]>>
         [] OTHER -> << >>
  ELSE << >>

\* The declarations of one kind, in the order of their positions, tagged.
tagged(declared, kind, tag) ==
  LET found == SelectSeq(declared, LAMBDA d : d.kind = kind)
  IN  [i \in DOMAIN found |-> [kind |-> tag, name |-> found[i].name]]

\* extractSymbols as it would be if the classes were collected first in
\* every language.
extractSymbols_classesFirst(declared, language) ==
  IF language \in {"typescript", "javascript", "python"}
    THEN tagged(declared, "class", "class") \o tagged(declared, "fn", "fn")
  ELSE IF language \in {"java", "csharp"}
    THEN tagged(declared, "class", "class") \o tagged(declared, "fn", "method")
  ELSE << >>

\* extractSymbols on a content given by its declarations: one loop over the
\* matches of the first regular expression, then one over the matches of
\* the second, each pushing its tags.
extractSymbols(declared, language) ==
  IF language \in {"typescript", "javascript", "python"}
    THEN tagged(declared, "fn", "fn") \o tagged(declared, "class", "class")
  ELSE IF language \in {"java", "csharp"}
    THEN tagged(declared, "class", "class") \o tagged(declared, "fn", "method")
  ELSE << >>

\* loadGitignore: the lines of the file, trimmed, without the empty ones and
\* the comments.
gitignoreLines(content) ==
  CASE content = "" -> {}
    [] content = "(\nsrc" -> {"(", "src"}
    [] OTHER -> {content}

\* The characters of the paths and of the patterns above, one by one.
chars(text) ==
  CASE text = "src" -> <<"s", "r", "c">>
    [] text = "*.ts" -> <<"*", ".", "t", "s">>
    [] text = "a.ts" -> <<"a", ".", "t", "s">>
    [] text = "notes.txt" -> <<"n", "o", "t", "e", "s", ".", "t", "x", "t">>
    [] text = ".gitignore" -> <<".", "g", "i", "t", "i", "g", "n", "o", "r", "e">>
    [] text = "node_modules" ->
         <<"n", "o", "d", "e", "_", "m", "o", "d", "u", "l", "e", "s">>
    [] text = "node_modules/a.ts" ->
         <<"n", "o", "d", "e", "_", "m", "o", "d", "u", "l", "e", "s", "/",
           "a", ".", "t", "s">>
    [] text = "src/b.py" -> <<"s", "r", "c", "/", "b", ".", "p", "y">>
    [] text = "*.py" -> <<"*", ".", "p", "y">>
    [] text = "(" -> <<"(">>
    [] text = "a.py" -> <<"a", ".", "p", "y">>
    [] text = "D.java" -> <<"D", ".", "j", "a", "v", "a">>
    [] text = "big.txt" -> <<"b", "i", "g", ".", "t", "x", "t">>
    [] text = "node_modules/x.js" ->
         <<"n", "o", "d", "e", "_", "m", "o", "d", "u", "l", "e", "s", "/",
           "x", ".", "j", "s">>
    [] text = "src/dist" -> <<"s", "r", "c", "/", "d", "i", "s", "t">>
    [] text = "/w/app" -> <<"/", "w", "/", "a", "p", "p">>
    [] text = "/v/app" -> <<"/", "v", "/", "a", "p", "p">>
    [] text = "/w/my app" -> <<"/", "w", "/", "m", "y", " ", "a", "p", "p">>
    [] text = "/w/my_app" -> <<"/", "w", "/", "m", "y", "_", "a", "p", "p">>
    [] text = "src/dist/a.ts" ->
         <<"s", "r", "c", "/", "d", "i", "s", "t", "/", "a", ".", "t", "s">>

\* String.prototype.replace with a global pattern that matches the text
\* `from` literally: every occurrence, found from left to right without
\* overlap, is replaced by `to`. Texts are sequences of characters.
RECURSIVE replace(_, _, _)
replace(text, from, to) ==
  IF Len(text) < Len(from) THEN text
  ELSE IF SubSeq(text, 1, Len(from)) = from
       THEN to \o replace(SubSeq(text, Len(from) + 1, Len(text)), from, to)
       ELSE <<text[1]>> \o replace(Tail(text), from, to)

\* matchesPattern: the four replacements, each applied to the result of the
\* one before it.
regexPattern(pattern) ==
  replace(replace(replace(replace(pattern,
                                  <<".">>, <<"\\", ".">>),
                          <<"*", "*">>, <<".", "*">>),
                  <<"*">>, <<"[", "^", "/", "]", "*">>),
          <<"?">>, <<".">>)

\* new RegExp: the text of a regular expression as its sequence of atoms,
\* each an escaped or plain character ("lit"), a dot ("any") or the class
\* [^/] ("notSlash"), with or without a star after it, for a text that
\* compiles.
RECURSIVE RegExp(_)
RegExp(text) ==
  IF text = << >> THEN << >>
  ELSE LET atom == IF text[1] = "\\" THEN [kind |-> "lit", char |-> text[2], len |-> 2]
                   ELSE IF text[1] = "." THEN [kind |-> "any", char |-> ".", len |-> 1]
                   ELSE IF text[1] = "[" THEN [kind |-> "notSlash", char |-> "/", len |-> 4]
                   ELSE [kind |-> "lit", char |-> text[1], len |-> 1]
           star == Len(text) > atom.len /\ text[atom.len + 1] = "*"
           used == atom.len + (IF star THEN 1 ELSE 0)
       IN  <<[kind |-> atom.kind, char |-> atom.char, star |-> star]>>
             \o RegExp(SubSeq(text, used + 1, Len(text)))

\* One character against one atom.
accepts(atom, char) ==
  CASE atom.kind = "lit" -> char = atom.char
    [] atom.kind = "any" -> TRUE
    [] atom.kind = "notSlash" -> char # "/"

\* regex.test(path) for a regular expression anchored at both ends.
RECURSIVE test(_, _)
test(regex, path) ==
  IF regex = << >> THEN path = << >>
  ELSE IF regex[1].star
       THEN \/ test(Tail(regex), path)
            \/ path # << >> /\ accepts(regex[1], path[1]) /\ test(regex, Tail(path))
       ELSE path # << >> /\ accepts(regex[1], path[1]) /\ test(Tail(regex), Tail(path))

\* new RegExp throws a SyntaxError for the text: of the characters used
\* here only the opening parenthesis, which starts a group that nothing
\* closes, makes it throw.
throws(text) == \E i \in DOMAIN text : text[i] = "("

\* matchesPattern as it would be if its catch block returned true.
matchesPattern_failsClosed(path, pattern) ==
  IF throws(regexPattern(pattern)) THEN TRUE
  ELSE test(RegExp(regexPattern(pattern)), path)

\* matchesPattern(path, pattern): false when new RegExp throws.
matchesPattern(path, pattern) ==
  IF throws(regexPattern(pattern)) THEN FALSE
  ELSE test(RegExp(regexPattern(pattern)), path)

\* For each pattern of the ignore files above, the paths of the entries
\* above that matchesPattern accepts.
matched ==
  [pattern \in UNION {gitignoreLines(e.content) :
                        e \in {f \in AllEntries : f.relativePath = ".gitignore"}} |->
     {path \in {e.relativePath : e \in AllEntries} :
        matchesPattern(chars(path), chars(pattern))}]

\* String.prototype.toLowerCase, character by character.
toLowerCase(text) ==
  [i \in DOMAIN text |->
     CASE text[i] = "F" -> "f"
       [] text[i] = "O" -> "o"
       [] OTHER -> text[i]]

\* String.prototype.includes
RECURSIVE includes(_, _)
includes(text, part) ==
  IF Len(part) > Len(text) THEN FALSE
  ELSE SubSeq(text, 1, Len(part)) = part \/ includes(Tail(text), part)

\* Array.prototype.slice(0, end)
slice(list, end) ==
  LET to == IF end < 0 THEN (IF Len(list) + end < 0 THEN 0 ELSE Len(list) + end)
            ELSE IF end > Len(list) THEN Len(list) ELSE end
  IN  SubSeq(list, 1, to)

\* searchFiles: the test of one file, as it would be without toLowerCase on
\* the file's texts.
matchesQuery_caseSensitive(file, lowerQuery) ==
  \/ includes(file.relativePath, lowerQuery)
  \/ includes(file.content, lowerQuery)
  \/ /\ "symbols" \in DOMAIN file
     /\ \E i \in DOMAIN file.symbols : includes(file.symbols[i], lowerQuery)

\* searchFiles: the test of one file; symbols?.some(...) is undefined for a
\* file without symbols.
matchesQuery(file, lowerQuery) ==
  \/ includes(toLowerCase(file.relativePath), lowerQuery)
  \/ includes(toLowerCase(file.content), lowerQuery)
  \/ /\ "symbols" \in DOMAIN file
     /\ \E i \in DOMAIN file.symbols : includes(toLowerCase(file.symbols[i]), lowerQuery)

\* searchFiles(index, query, limit): what it returns and the index after it.
searchFiles(index, query, limit) ==
  [returned |-> slice(SelectSeq(index.files,
                                LAMBDA file : matchesQuery(file, toLowerCase(query))),
                      limit),
   index |-> index]

\* shouldIgnore as it would be if only the entry's own name were compared
\* with commonIgnoreFiles.
shouldIgnore_filesOnly(entry, patterns) ==
  entry.parts[Len(entry.parts)] \in commonIgnoreFiles

\* shouldIgnore(entry.name, relativePath, entry.isDirectory())
shouldIgnore(entry, patterns) ==
  \/ entry.parts[Len(entry.parts)] \in commonIgnoreFiles
  \/ \E i \in DOMAIN entry.parts : entry.parts[i] \in commonIgnorePaths
  \/ \E pattern \in patterns : entry.relativePath \in matched[pattern]

\* indexFile as it would be with >= in the size test.
exceedsCeiling_inclusive(size) == size >= MaxFileSize

\* indexFile: stats.size > 500 * 1024
exceedsCeiling(size) == size > MaxFileSize

\* indexFile: the update of the index for one file, without the count of
\* the file's language.
pushFile_noLanguage(index, file) ==
  [index EXCEPT
     !.files = Append(@, file),
     !.totalSize = @ + file.size,
     !.fileCount = @ + 1,
     !.summary = [total |-> @.total + Len(file.symbols),
                  functions |-> @.functions + CountSymbols(<<file>>, {"fn", "method"}),
                  classes |-> @.classes + CountSymbols(<<file>>, {"class", "struct"})]]

\* indexFile: the update of the index for one file, as it would be if only
\* the fn: tags counted as functions.
pushFile_fnOnly(index, file) ==
  [index EXCEPT
     !.files = Append(@, file),
     !.totalSize = @ + file.size,
     !.fileCount = @ + 1,
     !.languages = IF file.language \in DOMAIN @
                   THEN [@ EXCEPT ![file.language] = @ + 1]
                   ELSE (file.language :> 1) @@ @,
     !.summary = [total |-> @.total + Len(file.symbols),
                  functions |-> @.functions + CountSymbols(<<file>>, {"fn"}),
                  classes |-> @.classes + CountSymbols(<<file>>, {"class", "struct"})]]

\* indexFile: the update of the index for one file.
pushFile(index, file) ==
  [index EXCEPT
     !.files = Append(@, file),
     !.totalSize = @ + file.size,
     !.fileCount = @ + 1,
     !.languages = IF file.language \in DOMAIN @
                   THEN [@ EXCEPT ![file.language] = @ + 1]
                   ELSE (file.language :> 1) @@ @,
     !.summary = [total |-> @.total + Len(file.symbols),
                  functions |-> @.functions + CountSymbols(<<file>>, {"fn", "method"}),
                  classes |-> @.classes + CountSymbols(<<file>>, {"class", "struct"})]]

\* indexFile reaches readFile: stat succeeded, the size is within the
\* ceiling and the extension names a supported language.
readsContent(entry, outcome) ==
  /\ outcome # "statFail"
  /\ ~exceedsCeiling(entry.size)
  /\ getLanguageFromPath(entry.parts[Len(entry.parts)]) # {}

\* indexFile as it would be if a failed read skipped the file.
indexFile_skipsUnread(index, entry, outcome, id) ==
  LET fileName == entry.parts[Len(entry.parts)]
  IN  IF outcome \in {"statFail", "readFail"} \/ exceedsCeiling(entry.size)
         \/ getLanguageFromPath(fileName) = {}
      THEN index
      ELSE LET language == CHOOSE l \in getLanguageFromPath(fileName) : TRUE
           IN  pushFile(index,
                        CodeFile([relativePath |-> entry.relativePath,
                                  language |-> language,
                                  content |-> entry.content,
                                  size |-> entry.size,
                                  lastModified |-> 1,
                                  hash |-> simpleHash(entry.content),
                                  symbols |-> extractSymbols(exec(entry.content, language),
                                                             language)],
                                 id))

\* indexFile: stat "statFail" throws and the file is skipped; a file above
\* the ceiling or without a supported language is skipped; a failed read
\* ("readFail") gives the content ''.
indexFile(index, entry, outcome, id) ==
  LET fileName == entry.parts[Len(entry.parts)]
      content == IF outcome = "readFail" THEN "" ELSE entry.content
  IN  IF outcome = "statFail" \/ exceedsCeiling(entry.size)
         \/ getLanguageFromPath(fileName) = {}
      THEN index
      ELSE LET language == CHOOSE l \in getLanguageFromPath(fileName) : TRUE
           IN  pushFile(index,
                        CodeFile([relativePath |-> entry.relativePath,
                                  language |-> language,
                                  content |-> content,
                                  size |-> entry.size,
                                  lastModified |-> 1,
                                  hash |-> simpleHash(content),
                                  symbols |-> extractSymbols(exec(content, language),
                                                             language)],
                                 id))

\* loadGitignore: the patterns are replaced when the root has a .gitignore
\* that can be read, and kept otherwise.
loadGitignore(patterns, tree, readable) ==
  LET found == {e \in tree : e.relativePath = ".gitignore"}
  IN  IF found = {} \/ ~readable THEN patterns
      ELSE UNION {gitignoreLines(e.content) : e \in found}

\* The walk: tree is the workspace, stack the scanDirectory calls in progress
\* with the entries each has yet to visit, index the Index being built,
\* scanned the directories whose entries were listed, failed the paths whose
\* readdir or stat threw, unread the files whose readFile rejected.
IdleWalk ==
  [pc |-> "idle", tree |-> {}, stack |-> << >>, index |-> IndexOf(<< >>),
   scanned |-> {}, failed |-> {}, unread |-> {}]

Frame(entries) == [entries |-> entries]

\* The fields of an Index that two walks of one tree are compared by.
Aggregates(index) ==
  [fileCount |-> index.fileCount, totalSize |-> index.totalSize,
   languages |-> index.languages]

\* No call of matchesPattern, extractSymbols or searchFiles is examined.
NoCall == [method |-> "none", done |-> FALSE]

\* The calls of scanDirectory that have entries left; the ones that have
\* none return.
RECURSIVE Unwind(_)
Unwind(stack) ==
  IF stack = << >> THEN stack
  ELSE IF stack[Len(stack)].entries = {} THEN Unwind(SubSeq(stack, 1, Len(stack) - 1))
  ELSE stack

\* scanDirectory as it would be if an entry's error ended the walk.
Step_aborting(w, entry, index, listed, threw) ==
  LET top == Len(w.stack)
      rest == [w.stack EXCEPT ![top] = Frame(@.entries \ {entry})]
      stack == IF threw THEN << >>
               ELSE Unwind(IF listed = {} THEN rest ELSE Append(rest, Frame(listed)))
  IN  [w EXCEPT !.stack = stack,
                !.index = index,
                !.failed = IF threw THEN @ \cup {entry.relativePath} ELSE @,
                !.pc = IF stack = << >> THEN "returned" ELSE "scanning"]

\* The walk after the entry on top of the stack has been dealt with and,
\* for a directory that was listed, its entries pushed.
Step(w, entry, index, listed, threw) ==
  LET top == Len(w.stack)
      rest == [w.stack EXCEPT ![top] = Frame(@.entries \ {entry})]
      stack == Unwind(IF listed = {} THEN rest ELSE Append(rest, Frame(listed)))
  IN  [w EXCEPT !.stack = stack,
                !.index = index,
                !.failed = IF threw THEN @ \cup {entry.relativePath} ELSE @,
                !.pc = IF stack = << >> THEN "returned" ELSE "scanning"]

\* ---------------------------------------------------------------- tasks
Task(origin, pc, index) == [origin |-> origin, pc |-> pc, index |-> index]

WatcherOrigins == {"timer", "force"}

ManualOrigins == {"command", "chat", "clear"}

TaskSet == BagToSet(tasks)

\* The number of operations of the given origins that are in flight.
InFlight(origins) ==
  LET S == {t \in TaskSet : t.origin \in origins}
  IN  BagCardinality([t \in S |-> tasks[t]])

\* The number of saveIndex calls that are in flight.
SavesInFlight ==
  LET S == {t \in TaskSet : t.pc = "save"}
  IN  BagCardinality([t \in S |-> tasks[t]])

Spawn(t) == tasks (+) SetToBag({t})

Retire(t) == tasks (-) SetToBag({t})

Advance(t, u) == (tasks (-) SetToBag({t})) (+) SetToBag({u})

HasFreeReindex == InFlight(WatcherOrigins) < MaxReindexes

HasFreeManual == InFlight(ManualOrigins) < MaxManual

\* ------------------------------------------------------------- history
\* No timeout is armed and no re-index runs: the debounce window has elapsed
\* and the re-index it led to has completed.
Settled == armedTimers = {} /\ ~isIndexing

\* A segment that settles the watcher's own run: its save returned or threw.
SettlesReindex(e) == e.origin \in WatcherOrigins /\ e.op = "save"

DisturbedNext(e) ==
  \/ disturbed
  \/ e.op \in {"stopWatching", "forceReindex"}
  \/ e.op = "startWatching" /\ fileWatcher
  \/ e.op = "fileChanged" /\ isIndexing

DebounceRecord(e) ==
  IF "debounce" \in probes
  THEN /\ disturbed' = DisturbedNext(e)
       /\ dropped' = (dropped \/ (e.op = "timerFired" /\ e.outcome = "dropped"))
       /\ bursts' = IF DisturbedNext(e) THEN 0
                    ELSE IF e.op = "fileChanged" /\ Settled THEN bursts + 1
                    ELSE bursts
       /\ timerRuns' = IF DisturbedNext(e) THEN 0
                       ELSE IF e.op = "timerFired" /\ e.outcome = "started" THEN timerRuns + 1
                       ELSE timerRuns
  ELSE UNCHANGED <<disturbed, dropped, bursts, timerRuns>>

\* What became of the last notification: "due" (no re-index has started since,
\* and the watcher has been watching and holding a snapshot ever since),
\* "dueNoSnapshot" (as due, but at some point since no snapshot was held),
\* "stopped" (the watcher was stopped or restarted before a re-index started),
\* "running" (a re-index started after it), "done" (that re-index completed).
FreshNext(e) ==
  IF e.op = "fileChanged"
    THEN IF currentIndex # Null THEN "due" ELSE "dueNoSnapshot"
  ELSE IF e.op \in {"timerFired", "forceReindex"} /\ e.outcome = "started"
    THEN "running"
  ELSE IF SettlesReindex(e) /\ unobserved = "running"
    THEN "done"
  ELSE IF e.op = "delete" /\ unobserved = "due"
    THEN "dueNoSnapshot"
  ELSE IF e.op \in {"stopWatching", "startWatching"} /\ fileWatcher
          /\ unobserved \in {"due", "dueNoSnapshot"}
    THEN "stopped"
  ELSE unobserved

Record(e) ==
  /\ probes' = probes
  /\ lastOp' = IF "ops" \in probes THEN e ELSE lastOp
  /\ DebounceRecord(e)
  /\ unobserved' = IF "fresh" \in probes THEN FreshNext(e) ELSE unobserved
  /\ walked' = walked

\* ------------------------------------------- IndexStorage: workspaces
\* Workspace folders: two with the same directory name, and two whose
\* directory names differ in a character that getWorkspaceName replaces.
WorkspaceRoots == {rootPath, "/v/app", "/w/my app", "/w/my_app"}

\* path.basename: what follows the last separator.
RECURSIVE basename(_)
basename(path) ==
  IF \E i \in DOMAIN path : path[i] = "/"
  THEN basename(Tail(path))
  ELSE path

\* The characters /[^a-z0-9-]/gi leaves alone.
WordChars ==
  {"a", "b", "c", "d", "e", "f", "g", "h", "i", "j", "k", "l", "m", "n", "o",
   "p", "q", "r", "s", "t", "u", "v", "w", "x", "y", "z",
   "A", "B", "C", "D", "E", "F", "G", "H", "I", "J", "K", "L", "M", "N", "O",
   "P", "Q", "R", "S", "T", "U", "V", "W", "X", "Y", "Z",
   "0", "1", "2", "3", "4", "5", "6", "7", "8", "9", "-"}

\* getWorkspaceName: the directory name with every other character replaced
\* by an underscore.
getWorkspaceName(workspacePath) ==
  LET name == basename(chars(workspacePath))
  IN  [i \in DOMAIN name |-> IF name[i] \in WordChars THEN name[i] ELSE "_"]

\* The storage path after the constructor's mkdirSync: no document and no
\* contents directory under any workspace name.
EmptyStorage ==
  [key \in {getWorkspaceName(root) : root \in WorkspaceRoots} |->
     [metadata |-> {}, blobs |-> << >>]]

\* The Index indexWorkspace(root) returns for a tree with the files of index.
indexAt(root, index) ==
  [index EXCEPT
     !.rootPath = root,
     !.files = [i \in DOMAIN index.files |->
                  [index.files[i] EXCEPT !.path = <<root, index.files[i].relativePath>>]]]

\* The file lists of the indexes saved below: of at most MaxStored files,
\* whose blobs go under one id.
StoredLists ==
  {list \in FileLists :
     /\ Len(list) <= MaxStored
     /\ \A i \in DOMAIN list : list[i].id = "file_1_a"}

\* The indexes the callers save for a workspace.
WorkspaceIndexes ==
  [root \in WorkspaceRoots |-> {indexAt(root, IndexOf(files)) : files \in StoredLists}]

\* saveFileContents after its mkdirSync: the blobs of the files, one after
\* the other, each written or not.
RECURSIVE saveFileContents(_, _, _)
saveFileContents(stored, files, written) ==
  IF files = << >> THEN stored
  ELSE saveFileContents(writeBlob(stored, Head(files), Head(files).id \in written),
                        Tail(files), written)

\* saveIndex from its call to its return or throw, with no other call in
\* progress: the document and the blobs under the workspace name afterwards.
saveIndex(documents, stored, index, outcome, written) ==
  [metadata |-> IF outcome = "writeFail" THEN documents ELSE {compactIndex(index)},
   blobs |-> IF outcome = "ok" THEN saveFileContents(stored, index.files, written)
             ELSE stored]

\* A call on the store of the workspaces: its method, its workspacePath
\* argument, how it ended and what it returned.
StorageCall(method, workspacePath, outcome, returned) ==
  [method |-> method, done |-> TRUE, workspacePath |-> workspacePath,
   outcome |-> outcome, returned |-> returned]

\* -------------------------------------------- InlineCompletionProvider
\* `${document.uri.toString()}@${position.line}:${position.character}` of
\* two cursor positions.
Keys == {"file:///w/app/a.ts@0:1", "file:///w/app/a.ts@0:2"}

\* No refresh command caused the invocation.
Typing == 0

\* provideInlineCompletionItems before its first await: the Ongoing the map
\* holds for the key, if any, is aborted and deleted from the map.
cancelPrevious(map, running, key) ==
  IF key \in DOMAIN map
  THEN [ongoingMap |-> [k \in DOMAIN map \ {key} |-> map[k]],
        streams |-> [running EXCEPT ![map[key]].aborted = TRUE]]
  ELSE [ongoingMap |-> map, streams |-> running]

\* const ongoing = { abortController, buffer: '' } and the streamComplete
\* call of the detached async function, up to the await of fetch.
Ongoing(key) == [key |-> key, buffer |-> << >>, aborted |-> FALSE, pc |-> "fetching"]

\* ongoingMap.set(key, ongoing)
set(map, key, id) == [k \in DOMAIN map \cup {key} |-> IF k = key THEN id ELSE map[k]]

\* The streamComplete call can still deliver a chunk.
Streaming(stream) == ~stream.aborted /\ stream.pc \in {"fetching", "reading"}

\* return [item]: insertText is ongoing.buffer || ''.
item(ongoing) == [insertText |-> ongoing.buffer]

\* An invocation: its key, the stream whose refresh command caused it (or
\* Typing), where it is, what it returned and, when it has returned, what
\* the stream that caused it had delivered by then.
Invocation(key, cause, pc) ==
  [key |-> key, cause |-> cause, pc |-> pc, items |-> << >>, streamed |-> << >>]

\* ------------------------------------- ChatViewProvider and ChatStorage
\* ChatStorage.addMessage: one more row of the messages table. The
\* database is opened without PRAGMA foreign_keys, so the row is inserted
\* whether or not the conversation still exists. send names the
\* onSendMessage call the content comes from.
addMessage(rows, conversationId, role, send) ==
  Append(rows, [conversationId |-> conversationId, role |-> role, send |-> send])

\* ChatStorage.createConversation: one more row of the conversations table,
\* under an id of its own.
createConversation(table) == Append(table, TRUE)

\* ChatStorage.deleteConversation: the row of the conversation is deleted.
deleteConversation(table, conversationId) == [table EXCEPT ![conversationId] = FALSE]

\* The conversations the webview lists.
Listed == {id \in DOMAIN conversations : conversations[id]}

\* An onSendMessage call: where it is and the conversation it stored the
\* user message in (Null when none was selected).
Send(pc, conversationId) == [pc |-> pc, conversationId |-> conversationId]

\* createConversation calls can still be made.
CanCreate == Len(conversations) + creating < MaxConversations

\* ---------------------------------------------------------------- Init
\* The state after activate has constructed the indexer, the store and the watcher.
InitComponents ==
  /\ fileWatcher = FALSE
  /\ subscriptions = 0
  /\ debounceTimer = Null
  /\ armedTimers = {}
  /\ isIndexing = FALSE
  /\ pendingChanges = FALSE
  /\ currentIndex = Null
  /\ onIndexComplete = FALSE
  /\ tasks = EmptyBag
  /\ fsVersion = 1
  /\ metadata = {}
  /\ blobs = << >>
  /\ storeCall = IdleCall
  /\ loaded = NotLoaded
  /\ described = NotDescribed
  /\ workspaces = EmptyStorage
  /\ gitignorePatterns = {}
  /\ walk = IdleWalk
  /\ ongoingMap = << >>
  /\ invocations = << >>
  /\ streams = << >>
  /\ refreshes = {}
  /\ currentConversationId = Null
  /\ conversations = << >>
  /\ messages = << >>
  /\ sends = << >>
  /\ creating = 0

InitProgram == InitComponents /\ call = NoCall

InitHistory(recorded) ==
  /\ probes = recorded
  /\ lastOp = Op("init", "none", "none")
  /\ bursts = 0
  /\ timerRuns = 0
  /\ disturbed = FALSE
  /\ dropped = FALSE
  /\ unobserved = "none"
  /\ walked = << >>

Init == InitProgram /\ InitHistory({"ops"})

InitDebounce == InitProgram /\ InitHistory({"debounce"})

InitLive == InitProgram /\ InitHistory({"fresh"})

InitStore == InitProgram /\ InitHistory({})

\* -------------------------------------------------------------- actions
\* activate and nextgenai.toggleAutoIndex, the two callers, both pass a callback.
StartWatching ==
  \E callback \in {TRUE} :
    /\ SetW(startWatching(W, callback))
    /\ Record(Op("startWatching", "none", "none"))
    /\ UNCHANGED <<viewVars, tasks, fsVersion, storeVars, walkVars, call>>

\* nextgenai.toggleAutoIndex and the deactivation hook.
StopWatching ==
  /\ SetW(stopWatching(W))
  /\ Record(Op("stopWatching", "none", "none"))
  /\ UNCHANGED <<viewVars, tasks, fsVersion, storeVars, walkVars, call>>

\* onDidCreate, onDidChange and onDidDelete all call onFileChanged; a
\* disposed watcher delivers nothing.
FileChanged ==
  /\ fileWatcher
  /\ fsVersion <= MaxChanges
  /\ HasFreeTimer(clearTimeout(armedTimers, debounceTimer))
  /\ fsVersion' = fsVersion + 1
  /\ SetW(onFileChanged(W))
  /\ Record(Op("fileChanged", "none", "none"))
  /\ UNCHANGED <<viewVars, tasks, storeVars, walkVars, call>>

\* A timeout expires and its arrow function runs.
TimerFires ==
  \E t \in armedTimers :
    LET w == [W EXCEPT !.armedTimers = @ \ {t}]
        due == timerCallbackReindexes(w)
        runs == due /\ ~reindexReturnsEarly(w)
    IN  /\ runs => HasFreeReindex
        /\ SetW(IF due THEN reindexBegin(w) ELSE w)
        /\ tasks' = IF runs THEN Spawn(Task("timer", "walk", Null)) ELSE tasks
        /\ Record(Op("timerFired", "timer",
                     IF runs THEN "started" ELSE IF due THEN "dropped" ELSE "none"))
        /\ UNCHANGED <<viewVars, fsVersion, storeVars, walkVars, call>>

ForceReindex ==
  LET runs == ~forceReindexIsNoop(W) /\ ~reindexReturnsEarly(W)
  IN  /\ runs => HasFreeReindex
      /\ SetW(forceReindexBegin(W))
      /\ tasks' = IF runs THEN Spawn(Task("force", "walk", Null)) ELSE tasks
      /\ Record(Op("forceReindex", "force",
                   IF runs THEN "started"
                   ELSE IF forceReindexIsNoop(W) THEN "noop" ELSE "dropped"))
      /\ UNCHANGED <<viewVars, fsVersion, storeVars, walkVars, call>>

\* The nextgenai.indexWorkspace command up to its await of the walk.
IndexCommand ==
  /\ HasFreeManual
  /\ tasks' = Spawn(Task("command", "walk", Null))
  /\ Record(Op("indexWorkspace", "command", "started"))
  /\ UNCHANGED <<viewVars, watcherVars, fsVersion, storeVars, walkVars, call>>

\* The chat view's indexWorkspace message up to its await of the walk.
ChatIndex ==
  /\ HasFreeManual
  /\ tasks' = Spawn(Task("chat", "walk", Null))
  /\ Record(Op("indexWorkspace", "chat", "started"))
  /\ UNCHANGED <<viewVars, watcherVars, fsVersion, storeVars, walkVars, call>>

\* The nextgenai.clearIndex command up to its await of deleteIndex.
ClearCommand ==
  /\ HasFreeManual
  /\ tasks' = Spawn(Task("clear", "delete", Null))
  /\ Record(Op("clearIndex", "clear", "started"))
  /\ UNCHANGED <<viewVars, watcherVars, fsVersion, storeVars, walkVars, call>>

\* indexWorkspace returns the snapshot of the tree: the caller goes on to
\* saveIndex, which is in flight from here. indexWorkspace never throws:
\* loadGitignore and scanDirectory catch every error, so an unreadable tree
\* yields a snapshot too.
WalkReturnsFor(t) ==
  /\ t.pc = "walk"
  /\ tasks' = Advance(t, [t EXCEPT !.pc = "save", !.index = fsVersion])
  /\ Record(Op("walk", t.origin, "ok"))
  /\ UNCHANGED <<viewVars, watcherVars, fsVersion, storeVars, walkVars, call>>

WalkReturns == \E t \in TaskSet : WalkReturnsFor(t)

\* saveIndex settles. It writes the metadata document first and the content
\* blobs after it: "metaFail" is a failed write of the document (nothing is
\* stored), "dirFail" a failed creation of the contents directory (the
\* document is stored, the call still throws).
SaveOutcomes == {"ok", "metaFail", "dirFail"}

\* The snapshot whose metadata document the call has written, or Null.
saveStores(outcome, index) == IF outcome \in {"ok", "dirFail"} THEN index ELSE Null

\* The subscriber, when reindexWorkspace calls it, returns or throws
\* ("callbackThrow": the save had returned and currentIndex is assigned).
SaveSettlesFor(t) ==
  \E outcome \in SaveOutcomes, callbackThrows \in BOOLEAN :
    /\ t.pc = "save"
    /\ callbackThrows => t.origin \in WatcherOrigins /\ reindexEmits(W, outcome)
    /\ tasks' = Retire(t)
    /\ IF t.origin \in WatcherOrigins
       THEN /\ SetW(reindexSettle(W, outcome, t.index))
            /\ Record([Op("save", t.origin, IF callbackThrows THEN "callbackThrow" ELSE outcome)
                         EXCEPT !.stored = saveStores(outcome, t.index),
                                !.emitted =
                                  IF reindexEmits(W, outcome)
                                  THEN reindexEmission(reindexAssign(W, outcome, t.index), t.index)
                                  ELSE NoEmission])
       ELSE /\ IF t.origin = "command" /\ outcome = "ok"
               THEN SetW(setCurrentIndex(W, t.index))
               ELSE UNCHANGED watcherVars
            /\ Record([Op("save", t.origin, outcome)
                         EXCEPT !.stored = saveStores(outcome, t.index)])
    /\ UNCHANGED <<viewVars, fsVersion, storeVars, walkVars, call>>

SaveSettles == \E t \in TaskSet : SaveSettlesFor(t)

\* deleteIndex settles (it catches its own errors), then setCurrentIndex(null).
DeleteSettles ==
  \E t \in TaskSet, outcome \in {"ok", "fail"} :
    /\ t.pc = "delete"
    /\ tasks' = Retire(t)
    /\ SetW(setCurrentIndex(W, Null))
    /\ Record(Op("delete", t.origin, outcome))
    /\ UNCHANGED <<viewVars, fsVersion, storeVars, walkVars, call>>

Next ==
  \/ StartWatching
  \/ StopWatching
  \/ FileChanged
  \/ TimerFires
  \/ ForceReindex
  \/ IndexCommand
  \/ ChatIndex
  \/ ClearCommand
  \/ WalkReturns
  \/ SaveSettles
  \/ DeleteSettles

Spec == Init /\ [][Next]_vars

SpecDebounce == InitDebounce /\ [][Next]_vars

\* A step of the watcher's own re-index: its walk or its save settles.
ReindexProgress ==
  \E t \in TaskSet :
    /\ t.origin \in WatcherOrigins
    /\ (WalkReturnsFor(t) \/ SaveSettlesFor(t))

\* Timeouts expire, and the walk and the save of a re-index terminate;
\* nothing obliges the user or the file system to act.
Fairness ==
  /\ WF_vars(TimerFires)
  /\ WF_vars(ReindexProgress)

SpecLive == InitLive /\ [][Next]_vars /\ Fairness

\* ------------------------------------------------- actions of the store
\* saveIndex up to its first await: the metadata document is being written.
SaveIndex ==
  /\ AtRest
  /\ \E index \in Indexes :
       /\ storeCall' = [IdleCall EXCEPT !.pc = "metadata", !.index = index, !.next = 1]
       /\ loaded' = NotLoaded
       /\ described' = NotDescribed
       /\ UNCHANGED <<viewVars, metadata, blobs, watcherVars, tasks, fsVersion, historyVars, walkVars,
                   workspaces, call>>

\* The write of the metadata document settles: "writeFail" (nothing is
\* written and saveIndex throws), or it is written and saveFileContents
\* begins with mkdirSync: "mkdirFail" (saveIndex throws), or the first blob
\* is being written, or, for an index without files, saveIndex returns.
MetadataSettles ==
  \E outcome \in {"ok", "writeFail", "mkdirFail"} :
    /\ storeCall.pc = "metadata"
    /\ metadata' = IF outcome = "writeFail" THEN metadata
                   ELSE {compactIndex(storeCall.index)}
    /\ storeCall' = [storeCall EXCEPT
                       !.pc = IF outcome # "ok" THEN "threw"
                              ELSE IF storeCall.index.files = << >> THEN "returned"
                              ELSE "blob",
                       !.wroteDocument = outcome # "writeFail",
                       !.failed = IF outcome = "ok" THEN {} ELSE {outcome}]
    /\ UNCHANGED <<viewVars, blobs, loaded, described, watcherVars, tasks, fsVersion, historyVars, walkVars,
                   workspaces, call>>

\* The write of one blob settles, written or not; after the last one
\* saveIndex returns.
BlobSettles ==
  \E written \in BOOLEAN :
    LET file == storeCall.index.files[storeCall.next]
    IN  /\ storeCall.pc = "blob"
        /\ blobs' = writeBlob(blobs, file, written)
        /\ storeCall' = [storeCall EXCEPT
                           !.pc = IF storeCall.next = Len(storeCall.index.files)
                                  THEN "returned" ELSE "blob",
                           !.next = @ + 1,
                           !.written = IF written THEN @ \cup {file.id} ELSE @,
                           !.failed = IF written THEN @ ELSE @ \cup {file.id}]
        /\ UNCHANGED <<viewVars, metadata, loaded, described, watcherVars, tasks, fsVersion, historyVars, walkVars,
                   workspaces, call>>

\* loadIndex, with no save or delete of the workspace in progress. clean: no
\* read of a file that exists failed. The blobs are read only after the
\* document has been.
LoadIndex ==
  \E docReadable \in BOOLEAN, unreadable \in SUBSET Ids :
    /\ AtRest
    /\ ~docReadable => unreadable = {}
    /\ loaded' = [done |-> TRUE,
                  clean |-> docReadable /\ unreadable = {},
                  docReadable |-> docReadable,
                  unreadable |-> unreadable,
                  result |-> loadIndex(metadata, blobs, docReadable, unreadable)]
    /\ described' = NotDescribed
    /\ UNCHANGED <<viewVars, metadata, blobs, storeCall, watcherVars, tasks, fsVersion, historyVars, walkVars,
                   workspaces, call>>

\* getIndexMetadata, with no save or delete of the workspace in progress.
GetIndexMetadata ==
  \E docReadable \in BOOLEAN :
    /\ AtRest
    /\ described' = [done |-> TRUE, docReadable |-> docReadable,
                     result |-> getIndexMetadata(metadata, docReadable)]
    /\ loaded' = NotLoaded
    /\ UNCHANGED <<viewVars, metadata, blobs, storeCall, watcherVars, tasks, fsVersion, historyVars, walkVars,
                   workspaces, call>>

\* deleteIndex, with no other call in progress: it unlinks the document if
\* it exists, then removes the workspace's directory if it exists, and
\* deleteIndex as it would be without the unlink of the document.
deleteIndex_keepsDocument(documents, stored, outcome) ==
  [metadata |-> documents,
   blobs |-> IF outcome = "ok" THEN << >> ELSE stored]

\* deleteIndex as it would be without the removal of the directory.
deleteIndex_keepsContents(documents, stored, outcome) ==
  [metadata |-> IF outcome = "unlinkFail" THEN documents ELSE {},
   blobs |-> stored]

\* deleteIndex, with no other call in progress: it unlinks the document if
\* it exists, then removes the workspace's directory if it exists, and
\* catches what either throws ("unlinkFail" skips the removal). Only what
\* exists can fail to be removed.
deleteIndex(documents, stored, outcome) ==
  [metadata |-> IF outcome = "unlinkFail" THEN documents ELSE {},
   blobs |-> IF outcome = "ok" THEN << >> ELSE stored]

DeleteIndex ==
  \E outcome \in {"ok", "unlinkFail", "rmFail"} :
    LET after == deleteIndex(metadata, blobs, outcome)
        removed ==
          (IF metadata # {} /\ after.metadata = {} THEN {"document"} ELSE {})
          \cup (IF blobs # << >> /\ after.blobs = << >> THEN {"contents"} ELSE {})
    IN  /\ AtRest
        /\ outcome = "unlinkFail" => metadata # {}
        /\ outcome = "rmFail" => blobs # << >>
        /\ metadata' = after.metadata
        /\ blobs' = after.blobs
        /\ storeCall' = [IdleCall EXCEPT
                           !.pc = "deleted",
                           !.index = storeCall.index,
                           !.removed = removed,
                           !.failed = IF outcome = "ok" THEN {} ELSE {outcome}]
        /\ loaded' = NotLoaded
        /\ described' = NotDescribed
        /\ UNCHANGED <<viewVars, watcherVars, tasks, fsVersion, historyVars, walkVars,
                   workspaces, call>>

NextStore ==
  \/ SaveIndex
  \/ MetadataSettles
  \/ BlobSettles
  \/ LoadIndex
  \/ GetIndexMetadata
  \/ DeleteIndex

SpecStore == InitStore /\ [][NextStore]_vars

\* ------------------------------- actions of the store, by workspace
\* saveIndex(workspacePath, index), as extension.ts, chatView.ts and the
\* watcher call it: with the Index of a walk of workspacePath.
SaveWorkspace ==
  \E root \in WorkspaceRoots, outcome \in {"ok", "writeFail", "mkdirFail"},
     written \in SUBSET {"file_1_a"} :
    \E index \in WorkspaceIndexes[root] :
      LET key == getWorkspaceName(root)
      IN  /\ outcome # "ok" => written = {}
          /\ workspaces' = [workspaces EXCEPT
                              ![key] = saveIndex(@.metadata, @.blobs, index, outcome, written)]
          /\ call' = StorageCall("saveIndex", root, outcome, {})
          /\ UNCHANGED <<viewVars, metadata, blobs, storeCall, loaded, described, watcherVars,
                         tasks, fsVersion, historyVars, walkVars>>

\* loadIndex(workspacePath)
LoadWorkspace ==
  \E root \in WorkspaceRoots, docReadable \in BOOLEAN, unreadable \in SUBSET {"file_1_a"} :
    LET key == getWorkspaceName(root)
    IN  /\ ~docReadable => unreadable = {}
        /\ call' = StorageCall("loadIndex", root, "ok",
                                loadIndex(workspaces[key].metadata, workspaces[key].blobs,
                                          docReadable, unreadable))
        /\ UNCHANGED <<viewVars, storeVars, watcherVars, tasks, fsVersion, historyVars, walkVars>>

\* deleteIndex(workspacePath)
DeleteWorkspace ==
  \E root \in WorkspaceRoots, outcome \in {"ok", "unlinkFail", "rmFail"} :
    LET key == getWorkspaceName(root)
    IN  /\ outcome = "unlinkFail" => workspaces[key].metadata # {}
        /\ outcome = "rmFail" => workspaces[key].blobs # << >>
        /\ workspaces' = [workspaces EXCEPT
                            ![key] = deleteIndex(@.metadata, @.blobs, outcome)]
        /\ call' = StorageCall("deleteIndex", root, outcome, {})
        /\ UNCHANGED <<viewVars, metadata, blobs, storeCall, loaded, described, watcherVars,
                       tasks, fsVersion, historyVars, walkVars>>

NextWorkspaces ==
  \/ SaveWorkspace
  \/ LoadWorkspace
  \/ DeleteWorkspace

InitWorkspaces == InitProgram /\ InitHistory({})

SpecWorkspaces == InitWorkspaces /\ [][NextWorkspaces]_vars

\* ------------------------------- actions of the inline completion provider
\* provideInlineCompletionItems up to the await of loadConfig, called by the
\* editor while the user types or after a refresh command for the position
\* the command's stream completes. With enableInline off it returns [].
ProvideInlineCompletionItems ==
  \E key \in Keys, cause \in {Typing} \cup refreshes, enabled \in BOOLEAN :
    LET cancelled == cancelPrevious(ongoingMap, streams, key)
    IN  /\ Len(invocations) < MaxInvocations
        /\ cause # Typing => key = streams[cause].key
        /\ refreshes' = refreshes \ {cause}
        /\ IF enabled
           THEN /\ ongoingMap' = cancelled.ongoingMap
                /\ streams' = cancelled.streams
                /\ invocations' = Append(invocations, Invocation(key, cause, "loadConfig"))
           ELSE /\ invocations' = Append(invocations, Invocation(key, cause, "returned"))
                /\ UNCHANGED <<ongoingMap, streams>>
        /\ UNCHANGED <<watcherVars, storeVars, walkVars, chatVars, tasks, fsVersion,
                       historyVars, call>>

\* The await of loadConfig settles.
LoadConfigSettles ==
  \E id \in DOMAIN invocations, outcome \in {"ok", "threw"} :
    /\ invocations[id].pc = "loadConfig"
    /\ invocations' = [invocations EXCEPT
                         ![id].pc = IF outcome = "ok" THEN "getApiKey" ELSE "threw"]
    /\ UNCHANGED <<ongoingMap, streams, refreshes, watcherVars, storeVars, walkVars,
                   chatVars, tasks, fsVersion, historyVars, call>>

\* The await of getApiKey settles: the rest of provideInlineCompletionItems
\* runs to its return. The stream is started and the item is made of the
\* buffer of the Ongoing just created.
GetApiKeySettles ==
  \E id \in DOMAIN invocations, outcome \in {"ok", "threw"} :
    LET key == invocations[id].key
        cause == invocations[id].cause
        ongoing == Ongoing(key)
    IN  /\ invocations[id].pc = "getApiKey"
        /\ IF outcome = "ok"
           THEN /\ ongoingMap' = set(ongoingMap, key, id)
                /\ streams' = (id :> ongoing) @@ streams
                /\ invocations' = [invocations EXCEPT
                                     ![id].pc = "returned",
                                     ![id].items = <<item(ongoing)>>,
                                     ![id].streamed = IF cause = Typing THEN << >>
                                                      ELSE streams[cause].buffer]
           ELSE /\ invocations' = [invocations EXCEPT ![id].pc = "threw"]
                /\ UNCHANGED <<ongoingMap, streams>>
        /\ UNCHANGED <<refreshes, watcherVars, storeVars, walkVars, chatVars, tasks,
                       fsVersion, historyVars, call>>

\* reader.read() resolves with a chunk: onChunk appends it to the buffer and
\* issues the refresh command. An aborted fetch or read delivers nothing.
StreamChunk ==
  \E id \in DOMAIN streams :
    /\ Streaming(streams[id])
    /\ Len(streams[id].buffer) < MaxChunks
    /\ streams' = [streams EXCEPT ![id].buffer = Append(@, "c"), ![id].pc = "reading"]
    /\ refreshes' = refreshes \cup {id}
    /\ UNCHANGED <<ongoingMap, invocations, watcherVars, storeVars, walkVars, chatVars,
                   tasks, fsVersion, historyVars, call>>

\* streamComplete settles: the body ended, the fetch or a read failed, or
\* the signal was aborted. The detached function catches what it throws.
StreamSettles ==
  \E id \in DOMAIN streams, outcome \in {"done", "failed"} :
    /\ streams[id].pc \in {"fetching", "reading"}
    /\ streams' = [streams EXCEPT
                     ![id].pc = IF streams[id].aborted THEN "aborted" ELSE outcome]
    /\ UNCHANGED <<ongoingMap, invocations, refreshes, watcherVars, storeVars, walkVars,
                   chatVars, tasks, fsVersion, historyVars, call>>

NextInline ==
  \/ ProvideInlineCompletionItems
  \/ LoadConfigSettles
  \/ GetApiKeySettles
  \/ StreamChunk
  \/ StreamSettles

InitInline == InitProgram /\ InitHistory({})

SpecInline == InitInline /\ [][NextInline]_vars

\* ------------------------------------------- actions of the chat view
\* viewReady with an empty conversations table: initializeChat calls
\* createConversation.
InitializeChat ==
  /\ conversations = << >>
  /\ currentConversationId = Null
  /\ creating = 0
  /\ creating' = 1
  /\ UNCHANGED <<currentConversationId, conversations, messages, sends, inlineVars,
                 watcherVars, storeVars, walkVars, tasks, fsVersion, historyVars, call>>

\* newConversation: onNewConversation calls createConversation.
OnNewConversation ==
  /\ CanCreate
  /\ creating' = creating + 1
  /\ UNCHANGED <<currentConversationId, conversations, messages, sends, inlineVars,
                 watcherVars, storeVars, walkVars, tasks, fsVersion, historyVars, call>>

\* createConversation settles: the caller makes the new conversation the
\* current one, or catches the error.
CreateConversationSettles ==
  \E outcome \in {"ok", "threw"} :
    /\ creating > 0
    /\ creating' = creating - 1
    /\ IF outcome = "ok"
       THEN /\ conversations' = createConversation(conversations)
            /\ currentConversationId' = Len(conversations')
       ELSE UNCHANGED <<conversations, currentConversationId>>
    /\ UNCHANGED <<messages, sends, inlineVars, watcherVars, storeVars, walkVars, tasks,
                   fsVersion, historyVars, call>>

\* loadConversation: onLoadConversation assigns the id before its first await.
OnLoadConversation ==
  \E conversationId \in Listed :
    /\ currentConversationId' = conversationId
    /\ UNCHANGED <<conversations, messages, sends, creating, inlineVars, watcherVars,
                   storeVars, walkVars, tasks, fsVersion, historyVars, call>>

\* deleteConversation: the await of ChatStorage.deleteConversation settles;
\* if the deleted conversation is the current one, onNewConversation is called.
OnDeleteConversation ==
  \E conversationId \in Listed :
    /\ currentConversationId = conversationId => CanCreate
    /\ conversations' = deleteConversation(conversations, conversationId)
    /\ creating' = IF currentConversationId = conversationId THEN creating + 1 ELSE creating
    /\ UNCHANGED <<currentConversationId, messages, sends, inlineVars, watcherVars,
                   storeVars, walkVars, tasks, fsVersion, historyVars, call>>

\* sendMessage: onSendMessage up to its first await. Without a current
\* conversation it returns; else it hands the user message to addMessage
\* with the current conversation's id.
OnSendMessage ==
  /\ Len(sends) < MaxSends
  /\ IF currentConversationId = Null
     THEN /\ sends' = Append(sends, Send("returned", Null))
          /\ UNCHANGED messages
     ELSE /\ sends' = Append(sends, Send("preparing", currentConversationId))
          /\ messages' = addMessage(messages, currentConversationId, "user", Len(sends'))
  /\ UNCHANGED <<currentConversationId, conversations, creating, inlineVars, watcherVars,
                 storeVars, walkVars, tasks, fsVersion, historyVars, call>>

\* The awaits before the stream settle (addMessage, loadConfig, getApiKey,
\* getMessages): streamChat is called, or no model is configured and the
\* call returns, or one of them threw.
SendPrepared ==
  \E send \in DOMAIN sends, outcome \in {"ok", "noModel", "threw"} :
    /\ sends[send].pc = "preparing"
    /\ sends' = [sends EXCEPT
                   ![send].pc = CASE outcome = "ok" -> "streaming"
                                  [] outcome = "noModel" -> "returned"
                                  [] outcome = "threw" -> "threw"]
    /\ UNCHANGED <<currentConversationId, conversations, messages, creating, inlineVars,
                   watcherVars, storeVars, walkVars, tasks, fsVersion, historyVars, call>>

\* streamChat settles: the response is handed to addMessage with
\* this.currentConversationId as it is now, or the stream threw.
StreamChatSettles ==
  \E send \in DOMAIN sends, outcome \in {"ok", "threw"} :
    /\ sends[send].pc = "streaming"
    /\ sends' = [sends EXCEPT ![send].pc = IF outcome = "ok" THEN "returned" ELSE "threw"]
    /\ messages' = IF outcome = "ok"
                   THEN addMessage(messages, currentConversationId, "assistant", send)
                   ELSE messages
    /\ UNCHANGED <<currentConversationId, conversations, creating, inlineVars, watcherVars,
                   storeVars, walkVars, tasks, fsVersion, historyVars, call>>

NextChat ==
  \/ InitializeChat
  \/ OnNewConversation
  \/ CreateConversationSettles
  \/ OnLoadConversation
  \/ OnDeleteConversation
  \/ OnSendMessage
  \/ SendPrepared
  \/ StreamChatSettles

InitChat == InitProgram /\ InitHistory({})

SpecChat == InitChat /\ [][NextChat]_vars

\* ------------------------------------------------ actions of the indexer
\* The entries the scanDirectory call on top of the stack has yet to visit.
Pending == IF walk.pc = "scanning" THEN walk.stack[Len(walk.stack)].entries ELSE {}

\* indexWorkspace up to the first entry of the root: loadGitignore, whose
\* read of the ignore file it catches when it throws, then readdir of the
\* root, which scanDirectory catches when it throws.
IndexWorkspaceOf(trees) ==
  /\ walk.pc = "idle"
  /\ \E tree \in trees, rootReadable \in BOOLEAN, ignoreReadable \in BOOLEAN :
       LET entries == IF rootReadable THEN readdir(tree, << >>) ELSE {}
           ignoreFailed == IF ignoreReadable THEN {}
                           ELSE {e.relativePath : e \in {f \in tree : f.relativePath = ".gitignore"}}
       IN  /\ gitignorePatterns' = loadGitignore(gitignorePatterns, tree, ignoreReadable)
           /\ walk' = [pc |-> IF entries = {} THEN "returned" ELSE "scanning",
                       tree |-> tree,
                       stack |-> IF entries = {} THEN << >> ELSE <<Frame(entries)>>,
                       index |-> IndexOf(<< >>),
                       scanned |-> IF rootReadable THEN {""} ELSE {},
                       failed |-> ignoreFailed \cup (IF rootReadable THEN {} ELSE {""}),
                       unread |-> {}]
           /\ UNCHANGED <<viewVars, watcherVars, storeVars, tasks, fsVersion, historyVars, call>>

\* indexWorkspace on any of the trees.
IndexWorkspace == IndexWorkspaceOf(Trees)

\* indexWorkspace on one of a few roots that are indexed again and again.
IndexRoot == IndexWorkspaceOf(Roots)

\* scanDirectory: an entry that shouldIgnore rejects.
SkipEntry ==
  \E entry \in Pending :
    /\ shouldIgnore(entry, gitignorePatterns)
    /\ walk' = Step(walk, entry, walk.index, {}, FALSE)
    /\ UNCHANGED <<viewVars, gitignorePatterns, watcherVars, storeVars, tasks, fsVersion, historyVars, call>>

\* scanDirectory: a directory is entered; its readdir lists it or throws,
\* which the inner call catches.
EnterDirectory ==
  \E entry \in Pending, readable \in BOOLEAN :
    /\ ~shouldIgnore(entry, gitignorePatterns)
    /\ entry.kind = "dir"
    /\ walk' = [Step(walk, entry, walk.index,
                     IF readable THEN readdir(walk.tree, entry.parts) ELSE {},
                     ~readable)
                  EXCEPT !.scanned = IF readable THEN @ \cup {entry.relativePath} ELSE @]
    /\ UNCHANGED <<viewVars, gitignorePatterns, watcherVars, storeVars, tasks, fsVersion, historyVars, call>>

\* scanDirectory: a file is handed to indexFile.
IndexFile ==
  \E entry \in Pending, outcome \in {"ok", "statFail", "readFail"}, id \in Ids :
    /\ ~shouldIgnore(entry, gitignorePatterns)
    /\ entry.kind = "file"
    /\ walk' = [Step(walk, entry, indexFile(walk.index, entry, outcome, id), {},
                     outcome = "statFail")
                  EXCEPT !.unread = IF outcome = "readFail" /\ readsContent(entry, outcome)
                                    THEN @ \cup {entry.relativePath} ELSE @]
    /\ UNCHANGED <<viewVars, gitignorePatterns, watcherVars, storeVars, tasks, fsVersion, historyVars, call>>

\* The caller has taken the Index that indexWorkspace returned; the indexer
\* keeps gitignorePatterns and nothing else.
IndexTaken ==
  /\ walk.pc = "returned"
  /\ walk' = IdleWalk
  /\ walked' = IF "walks" \in probes /\ walk.failed = {} /\ walk.tree \notin DOMAIN walked
               THEN (walk.tree :> Aggregates(walk.index)) @@ walked
               ELSE walked
  /\ UNCHANGED <<viewVars, gitignorePatterns, watcherVars, storeVars, tasks, fsVersion, call,
                 probes, lastOp, bursts, timerRuns, disturbed, dropped, unobserved>>

NextWalk ==
  \/ IndexWorkspace
  \/ SkipEntry
  \/ EnterDirectory
  \/ IndexFile
  \/ IndexTaken

InitWalk == InitProgram /\ InitHistory({})

SpecWalk == InitWalk /\ [][NextWalk]_vars

\* The same indexer used on the roots again and again, with the result of
\* the first clean walk of each root kept for comparison.
NextIdempotence ==
  \/ IndexRoot
  \/ SkipEntry
  \/ EnterDirectory
  \/ IndexFile
  \/ IndexTaken

InitIdempotence == InitProgram /\ InitHistory({"walks"})

SpecIdempotence == InitIdempotence /\ [][NextIdempotence]_vars

\* ------------------------------------- calls of the stateless methods
\* The texts of at most n characters over an alphabet.
Texts(alphabet, n) == UNION {[1..k -> alphabet] : k \in 0..n}

\* The characters of the patterns and of the paths handed to matchesPattern.
PatternChars == {"a", "/", ".", "*", "?", "("}

PathChars == {"a", "/", "."}

\* shouldIgnore is about to call matchesPattern(normalizedPath, pattern).
InitGlob ==
  /\ InitComponents
  /\ InitHistory({})
  /\ call \in [method : {"matchesPattern"}, done : {FALSE}, result : {FALSE},
                path : Texts(PathChars, MaxPath),
                pattern : Texts(PatternChars, MaxPattern)]

MatchesPattern ==
  /\ call.method = "matchesPattern"
  /\ ~call.done
  /\ call' = [call EXCEPT !.done = TRUE,
                          !.result = matchesPattern(call.path, call.pattern)]
  /\ UNCHANGED <<viewVars, watcherVars, storeVars, walkVars, tasks, fsVersion, historyVars>>

NextGlob == MatchesPattern

SpecGlob == InitGlob /\ [][NextGlob]_vars

\* The declarations a content is made of, and the languages it is read as.
Declarations ==
  { [kind |-> "fn", name |-> "f"], [kind |-> "fn", name |-> "g"],
    [kind |-> "class", name |-> "A"], [kind |-> "text", name |-> ""] }

SymbolLanguages == {"typescript", "javascript", "python", "java", "go"}

\* indexFile is about to call extractSymbols(content, language).
InitSymbols ==
  /\ InitComponents
  /\ InitHistory({})
  /\ call \in [method : {"extractSymbols"}, done : {FALSE}, result : {<< >>},
                declared : Texts(Declarations, MaxDeclared),
                language : SymbolLanguages]

ExtractSymbols ==
  /\ call.method = "extractSymbols"
  /\ ~call.done
  /\ call' = [call EXCEPT !.done = TRUE,
                          !.result = extractSymbols(call.declared, call.language)]
  /\ UNCHANGED <<viewVars, watcherVars, storeVars, walkVars, tasks, fsVersion, historyVars>>

NextSymbols == ExtractSymbols

SpecSymbols == InitSymbols /\ [][NextSymbols]_vars

\* The files of the indexes that are searched, their texts character by
\* character: one with the symbol fn:foo, one named Foo, one that was loaded
\* from the store (no symbols) with the content oF, one with none of these.
SearchedFiles ==
  { [relativePath |-> <<"a">>, content |-> <<"x">>,
     symbols |-> <<(<<"f", "n", ":", "f", "o", "o">>)>>],
    [relativePath |-> <<"F", "o", "o">>, content |-> <<"x">>, symbols |-> << >>],
    [relativePath |-> <<"b">>, content |-> <<"o", "F">>],
    [relativePath |-> <<"b">>, content |-> <<"x">>, symbols |-> << >>] }

QueryChars == {"f", "F", "o"}

\* The limits: the explicit ones and the default.
Limits == 0..MaxLimit \cup {10}

\* A caller is about to call searchFiles(index, query, limit).
InitSearch ==
  /\ InitComponents
  /\ InitHistory({})
  /\ \E files \in Texts(SearchedFiles, MaxSearched),
        query \in Texts(QueryChars, MaxQuery), limit \in Limits :
       call = [method |-> "searchFiles", done |-> FALSE, result |-> << >>,
               given |-> [files |-> files], index |-> [files |-> files],
               query |-> query, limit |-> limit]

SearchFiles ==
  /\ call.method = "searchFiles"
  /\ ~call.done
  /\ LET out == searchFiles(call.index, call.query, call.limit)
     IN  call' = [call EXCEPT !.done = TRUE, !.result = out.returned, !.index = out.index]
  /\ UNCHANGED <<viewVars, watcherVars, storeVars, walkVars, tasks, fsVersion, historyVars>>

NextSearch == SearchFiles

SpecSearch == InitSearch /\ [][NextSearch]_vars

\* =============================================================== claims
\* C1: at most one run of reindexWorkspace (walk plus save) is in progress
\* at any time, and what overlapping triggers leave behind is at most one
\* armed debounce timeout, never several queued runs.
C1_OneReindexAtATime ==
  /\ InFlight(WatcherOrigins) <= 1
  /\ Cardinality(armedTimers) <= 1

\* A re-index is running while a notification that overlapped it is pending.
C1_Witness ==
  /\ InFlight(WatcherOrigins) = 1
  /\ isIndexing /\ pendingChanges /\ Cardinality(armedTimers) = 1
  /\ lastOp.op = "fileChanged"

\* The debounce property's arithmetic: every burst leads to exactly one
\* timer-started re-index, which has started once the watcher is settled.
OnePerBurst ==
  /\ timerRuns <= bursts
  /\ bursts <= timerRuns + 1
  /\ Settled => timerRuns = bursts

SettlingTimerRun(t) == t \in TaskSet /\ t.origin = "timer" /\ t.pc = "save"

\* C3, first half: the debounce timeout fires in PendingDebounce with no
\* re-index running (and, as amended, a snapshot held): the watcher is
\* Indexing and one walk has started.
C3_Starts(needsSnapshot) ==
  (/\ lastOp'.op = "timerFired"
   /\ pendingChanges /\ ~isIndexing
   /\ needsSnapshot => currentIndex # Null)
  => /\ isIndexing'
     /\ tasks' = Spawn(Task("timer", "walk", Null))

\* C3, second half: when the save of that run returns, the snapshot is stored
\* and held, the watcher is not indexing, and the subscriber has been called
\* with that snapshot, seeing isIndexing = indexingAtEmit.
C3_Completes(indexingAtEmit) ==
  (lastOp'.op = "save" /\ lastOp'.origin = "timer" /\ lastOp'.outcome = "ok")
  => \E t \in TaskSet :
       /\ SettlingTimerRun(t)
       /\ lastOp'.stored = t.index
       /\ currentIndex' = t.index
       /\ ~isIndexing'
       /\ onIndexComplete => lastOp'.emitted = [index |-> t.index, isIndexing |-> indexingAtEmit]

C4_PendingDuringIndexing ==
  [][/\ (lastOp'.op = "fileChanged" /\ isIndexing)
        => /\ pendingChanges' /\ isIndexing'
           /\ tasks' = tasks /\ currentIndex' = currentIndex
     /\ (lastOp'.op = "timerFired" /\ isIndexing)
        => UNCHANGED <<isIndexing, pendingChanges, currentIndex, tasks>>
     /\ (SettlesReindex(lastOp') /\ pendingChanges)
        => /\ ~isIndexing' /\ pendingChanges'
           /\ armedTimers' = {debounceTimer'}]_vars

\* A run has just settled with a failure while changes were pending, and the timeout is armed.
C4_Witness ==
  /\ SettlesReindex(lastOp) /\ lastOp.outcome \in {"metaFail", "dirFail"}
  /\ pendingChanges /\ ~isIndexing /\ armedTimers = {debounceTimer}

\* C5 as claimed: from the stop request on, while the watcher is stopped, no
\* debounce timeout is armed and no timeout starts a re-index, also when a run
\* was in flight at the stop; the run in flight is not aborted.
C5_StoppedIsTerminal ==
  [][/\ ~fileWatcher'
        => /\ armedTimers' = {}
           /\ ~(lastOp'.op = "timerFired" /\ lastOp'.outcome = "started")
     /\ lastOp'.op = "stopWatching" => tasks' = tasks]_vars

\* C6: forceReindex during a running re-index changes nothing: not the
\* watcher's fields, not the timeouts, not the runs in flight and what they
\* will store, and nothing is written to the store.
C6_ForceWhileIndexingIsNoop ==
  [][(lastOp'.op = "forceReindex" /\ isIndexing)
     => (UNCHANGED <<watcherVars, tasks, fsVersion>> /\ lastOp'.stored = Null)]_vars

\* forceReindex has just declined while a run is in its save with changes pending.
C6_Witness ==
  /\ lastOp.op = "forceReindex" /\ lastOp.outcome = "noop"
  /\ isIndexing /\ pendingChanges
  /\ \E t \in TaskSet : t.origin \in WatcherOrigins /\ t.pc = "save"

C8_AlwaysBackToIdle ==
  [][/\ SettlesReindex(lastOp') => ~isIndexing'
     /\ lastOp'.op = "fileChanged" => (pendingChanges' /\ armedTimers' = {debounceTimer'})]_vars

\* An attempt has just failed (the save or the subscriber threw): the watcher
\* is not indexing and still watching.
C8_Witness ==
  /\ SettlesReindex(lastOp)
  /\ lastOp.outcome \in {"metaFail", "dirFail", "callbackThrow"}
  /\ ~isIndexing /\ fileWatcher /\ InFlight(WatcherOrigins) = 0

\* C9 as claimed: at most one saveIndex call is in flight for the workspace.
C9_OneSaveAtATime == SavesInFlight <= 1

\* The loaded index has the files of the saved one in the same order, each
\* with the same relativePath, language, size, hash and content, and each
\* record's id names the blob that holds that content.
RoundTrips(index, result) ==
  \E l \in result :
    /\ Len(l.files) = Len(index.files)
    /\ \A i \in DOMAIN index.files :
         /\ l.files[i].relativePath = index.files[i].relativePath
         /\ l.files[i].language = index.files[i].language
         /\ l.files[i].size = index.files[i].size
         /\ l.files[i].hash = index.files[i].hash
         /\ l.files[i].content = index.files[i].content
         /\ l.files[i].id \in DOMAIN blobs
         /\ blobs[l.files[i].id] = index.files[i].content

\* C10 as claimed: loadIndex after a saveIndex(I) that returned, no read
\* failing, returns the files of I: same order, same relativePath, language,
\* size, hash and content, each id naming the blob of that content.
C10_RoundTrip ==
  (storeCall.pc = "returned" /\ loaded.done /\ loaded.clean)
  => RoundTrips(storeCall.index, loaded.result)

\* The ids of the file records of the persisted metadata document.
DocumentIds == UNION {{d.files[i].id : i \in DOMAIN d.files} : d \in metadata}

\* C11 as claimed: a saveIndex call that returns without error had no failed
\* write, of the document or of a blob, and every file id in the persisted
\* metadata document names a content blob that this call wrote.
C11_FailedWriteFailsSave ==
  storeCall.pc = "returned"
  => /\ storeCall.failed = {}
     /\ storeCall.wroteDocument
     /\ DocumentIds \subseteq storeCall.written

\* The blob writes the call has attempted so far.
BlobsAttempted == storeCall.next - 1

\* C12 as claimed: at every point of a saveIndex call, and where it stopped
\* if it threw, the metadata document has been written by the call only if
\* the write of every content blob of the call has been attempted.
C12_MetadataAfterBlobs ==
  (storeCall.pc \in {"metadata", "blob", "returned", "threw"} /\ storeCall.wroteDocument)
  => BlobsAttempted = Len(storeCall.index.files)

\* The ids of the files of the Index the call was given.
IndexIds == {storeCall.index.files[i].id : i \in DOMAIN storeCall.index.files}

\* C13 as claimed: when a saveIndex call has returned with every one of its
\* writes done, the store holds the metadata document of its Index and the
\* content blobs of exactly the files of that Index: no blob of an earlier
\* snapshot remains.
C13_SaveReplacesSnapshot ==
  (storeCall.pc = "returned" /\ storeCall.failed = {})
  => /\ metadata = {compactIndex(storeCall.index)}
     /\ DOMAIN blobs = IndexIds

\* The loaded index agrees with the saved one in every field but content.
SameButContent(index, l) ==
  /\ {"summary", "totalSize", "fileCount", "lastIndexed", "languages"} \subseteq DOMAIN l
  /\ l.summary = index.summary
  /\ l.totalSize = index.totalSize
  /\ l.fileCount = index.fileCount
  /\ l.lastIndexed = index.lastIndexed
  /\ l.languages = index.languages
  /\ Len(l.files) = Len(index.files)
  /\ \A i \in DOMAIN index.files :
       /\ {"symbols", "lastModified"} \subseteq DOMAIN l.files[i]
       /\ l.files[i].symbols = index.files[i].symbols
       /\ l.files[i].lastModified = index.files[i].lastModified
  /\ getIndexSummary(l) = getIndexSummary(index)

\* C14 as claimed: loadIndex after a saveIndex(I) that returned, no read
\* failing, returns an Index equal to I in summary, totalSize, fileCount,
\* lastIndexed, languages and, per file, symbols and lastModified, and
\* getIndexSummary gives the same on both.
C14_MetadataRoundTrip ==
  (storeCall.pc = "returned" /\ loaded.done /\ loaded.clean)
  => \E l \in loaded.result : SameButContent(storeCall.index, l)

\* The blob of the id is in the store and the load could read it.
BlobRead(id) == id \in DOMAIN blobs /\ id \notin loaded.unreadable

\* C15: a loadIndex call returns null when no metadata document exists; when
\* one exists and is read, it returns an Index whatever happens to the
\* blobs: a file whose blob is missing or unreadable has content '', and
\* every other file has the content of its blob.
C15_LoadSurvivesBlobs ==
  loaded.done
  => /\ metadata = {} => loaded.result = {}
     /\ (metadata # {} /\ loaded.docReadable)
        => /\ loaded.result # {}
           /\ \A l \in loaded.result : \A d \in metadata :
                /\ Len(l.files) = Len(d.files)
                /\ \A i \in DOMAIN d.files :
                     /\ l.files[i].id = d.files[i].id
                     /\ BlobRead(d.files[i].id) => l.files[i].content = blobs[d.files[i].id]
                     /\ ~BlobRead(d.files[i].id) => l.files[i].content = ""

\* A load returned an Index of two files, one with a blob that could not be
\* read and content '', the other with the content of its blob.
C15_Witness ==
  /\ loaded.done
  /\ \E l \in loaded.result :
       /\ Len(l.files) = 2
       /\ l.files[1].id \in DOMAIN blobs /\ l.files[1].id \in loaded.unreadable
       /\ blobs[l.files[1].id] = "x" /\ l.files[1].content = ""
       /\ l.files[2].id \notin loaded.unreadable
       /\ l.files[2].content = "def f():"

\* A deleteIndex call ran in this step.
DeleteStep ==
  storeCall'.pc = "deleted" /\ loaded' = NotLoaded /\ described' = NotDescribed

Absent == metadata = {} /\ blobs = << >>

\* C16: a deleteIndex call that meets no file-system failure leaves neither
\* the metadata document nor any content blob of the workspace; called when
\* both are already absent, as after a first deleteIndex, it fails at
\* nothing and leaves the store as it found it.
C16_DeleteIdempotent ==
  [][DeleteStep
     => /\ storeCall'.failed = {} => Absent'
        /\ Absent => (storeCall'.failed = {} /\ Absent')]_vars

\* A deleteIndex call found and removed both the document and the blobs of
\* a two-file index.
C16_Witness ==
  /\ storeCall.pc = "deleted"
  /\ storeCall.removed = {"document", "contents"}
  /\ storeCall.index.fileCount = 2
  /\ Absent

\* The last call that wrote to the store is a deleteIndex that met no
\* file-system failure: no save has begun since.
Deleted == storeCall.pc = "deleted" /\ storeCall.failed = {}

\* C17: from a deleteIndex that met no failure until the next save, loadIndex
\* and getIndexMetadata return null; and a deleteIndex call leaves the Index
\* its caller holds in memory as it was, with getIndexSummary still defined
\* on it.
C17_DeleteChangesStorageOnly ==
  [][/\ Deleted' => /\ loaded'.done => loaded'.result = {}
                    /\ described'.done => described'.result = {}
     /\ DeleteStep => /\ storeCall'.index = storeCall.index
                      /\ getIndexSummary(storeCall'.index) # {}]_vars

\* After a two-file index was saved and then deleted, loadIndex returned
\* null while the caller still held the index.
C17_Witness ==
  /\ Deleted
  /\ "document" \in storeCall.removed
  /\ storeCall.index.fileCount = 2
  /\ loaded.done /\ loaded.docReadable /\ loaded.result = {}

\* Some segment of the root-relative path is one of commonIgnorePaths.
DenyListed(relativePath) ==
  \E i \in DOMAIN split(relativePath) : split(relativePath)[i] \in commonIgnorePaths

\* C18: at every point of a walk, no file of the Index being built has a
\* root-relative path with a deny-listed segment, at any depth, and no
\* directory with such a path has had its entries listed.
C18_DenyListExcluded ==
  /\ \A i \in DOMAIN walk.index.files : ~DenyListed(walk.index.files[i].relativePath)
  /\ \A d \in walk.scanned \ {""} : ~DenyListed(d)

\* A walk has returned from a tree with node_modules/a.ts at the root and
\* src/dist/a.ts below src: src was listed and src/b.py is in the Index.
C18_Witness ==
  /\ walk.pc = "returned"
  /\ {"node_modules/a.ts", "src/dist/a.ts"} \subseteq {e.relativePath : e \in walk.tree}
  /\ "src" \in walk.scanned
  /\ \E i \in DOMAIN walk.index.files : walk.index.files[i].relativePath = "src/b.py"

\* The relativePaths of the files of the Index being built.
IndexedPaths == {walk.index.files[i].relativePath : i \in DOMAIN walk.index.files}

\* The walk reached the file and nothing but its size can have excluded it:
\* its directory was listed, shouldIgnore let it pass, its stat succeeded
\* and its extension names a supported language.
Eligible(entry) ==
  /\ entry.kind = "file"
  /\ ~shouldIgnore(entry, gitignorePatterns)
  /\ entry.relativePath \notin walk.failed
  /\ (IF Len(entry.parts) = 1 THEN ""
      ELSE (CHOOSE d \in AllEntries : d.parts = Parent(entry.parts)).relativePath)
       \in walk.scanned
  /\ getLanguageFromPath(entry.parts[Len(entry.parts)]) # {}

\* C19: at every point of a walk no file of the tree larger than 512000
\* bytes is in the Index, and totalSize, fileCount, the languages histogram
\* and the summary count the files of the Index only; when the walk has
\* returned, an eligible file of exactly 512000 bytes is in the Index.
C19_SizeCeiling ==
  /\ \A entry \in walk.tree :
       (entry.kind = "file" /\ entry.size > 512000) => entry.relativePath \notin IndexedPaths
  /\ walk.index = IndexOf(walk.index.files)
  /\ walk.pc = "returned"
     => \A entry \in walk.tree :
          (Eligible(entry) /\ entry.size = 512000) => entry.relativePath \in IndexedPaths

\* A walk has returned from a tree whose a.ts has 512001 bytes: the file
\* was reached and its stat succeeded, and the Index holds src/b.py alone,
\* with totalSize 8.
C19_Witness ==
  /\ walk.pc = "returned"
  /\ \E entry \in walk.tree :
       entry.relativePath = "a.ts" /\ entry.size = 512001 /\ Eligible(entry)
  /\ IndexedPaths = {"src/b.py"}
  /\ walk.index.fileCount = 1
  /\ walk.index.totalSize = 8

\* The sum of the values of a histogram over the given keys.
RECURSIVE SumOver(_, _)
SumOver(histogram, keys) ==
  IF keys = {} THEN 0
  ELSE LET k == CHOOSE key \in keys : TRUE
       IN  histogram[k] + SumOver(histogram, keys \ {k})

\* C20: at every point of a walk, and in the Index it returns, the values of
\* the languages histogram sum to fileCount, fileCount is the number of
\* entries of files, and totalSize is the sum of their sizes.
C20_AggregatesAgree ==
  /\ SumOver(walk.index.languages, DOMAIN walk.index.languages) = walk.index.fileCount
  /\ walk.index.fileCount = Len(walk.index.files)
  /\ walk.index.totalSize = TotalSize(walk.index.files)

\* A walk is under way with a.ts of 512000 bytes and src/b.py of 8 bytes in
\* the Index and entries of the tree still to visit.
C20_Witness ==
  /\ walk.pc = "scanning"
  /\ walk.index.fileCount = 2
  /\ walk.index.totalSize = 512008
  /\ DOMAIN walk.index.languages = {"typescript", "python"}

\* The ids of the files of the Index being built, one per position.
WalkIds == [i \in DOMAIN walk.index.files |-> walk.index.files[i].id]

\* C21: at every point of a walk no two files of the Index being built have
\* the same id, whichever values Date.now() and Math.random() return for
\* each file.
C21_IdsUnique ==
  \A i, j \in DOMAIN WalkIds : WalkIds[i] = WalkIds[j] => i = j

\* C22: at every point of a walk no two files of the Index being built have
\* the same relativePath, and a path of the tree is in the Index at most
\* once however the entries are ordered and whichever of them fail.
C22_PathsUnique ==
  \A i, j \in DOMAIN walk.index.files :
    walk.index.files[i].relativePath = walk.index.files[j].relativePath => i = j

\* A walk has returned an Index with a.ts of the root and src/b.py, after
\* listing the root and src.
C22_Witness ==
  /\ walk.pc = "returned"
  /\ {"", "src"} \subseteq walk.scanned
  /\ Len(walk.index.files) = 2
  /\ IndexedPaths = {"a.ts", "src/b.py"}

\* C23: indexWorkspace returns no Index for a root whose readdir threw.
C23_RootFailureSurfaces == "" \in walk.failed => walk.pc # "returned"

\* The entry is below a directory of the tree whose readdir threw.
BelowFailed(entry) ==
  \E k \in 1..(Len(entry.parts) - 1) :
    \E d \in walk.tree :
      d.parts = SubSeq(entry.parts, 1, k) /\ d.relativePath \in walk.failed

\* Every file of the tree that nothing but an error of its own could have
\* excluded is in the returned Index.
OthersIndexed ==
  \A entry \in walk.tree :
    (Eligible(entry) /\ ~exceedsCeiling(entry.size)) => entry.relativePath \in IndexedPaths

\* C24 as stated: in the Index a walk returns, no entry whose readdir, stat
\* or read failed is present, and every other eligible file of the tree is.
C24_Original ==
  walk.pc = "returned"
  => /\ IndexedPaths \cap (walk.failed \cup walk.unread) = {}
     /\ OthersIndexed

\* C24, amended: in the Index a walk returns, no file whose stat failed and
\* no file below a directory whose readdir failed is present; a file whose
\* read failed is present with content '' and the size stat reported; every
\* file that the walk reached without an error of its own, that is not
\* ignored, is within the ceiling and has a supported extension is present,
\* whichever other entries failed.
C24_EntryErrorsSkipped ==
  walk.pc = "returned"
  => /\ IndexedPaths \cap walk.failed = {}
     /\ \A entry \in walk.tree : BelowFailed(entry) => entry.relativePath \notin IndexedPaths
     /\ \A entry \in walk.tree :
          entry.relativePath \in walk.unread
          => \E i \in DOMAIN walk.index.files :
               /\ walk.index.files[i].relativePath = entry.relativePath
               /\ walk.index.files[i].content = ""
               /\ walk.index.files[i].size = entry.size
     /\ OthersIndexed

\* A walk has returned after the stat of a.ts threw and the read of src/b.py
\* failed: the Index holds src/b.py alone.
C24_Witness ==
  /\ walk.pc = "returned"
  /\ walk.failed = {"a.ts"}
  /\ walk.unread = {"src/b.py"}
  /\ IndexedPaths = {"src/b.py"}

\* C25: when a walk of a tree returns without a failed readdir, stat or
\* ignore-file read, and an earlier walk of the same tree by this indexer
\* did so too, whichever roots were indexed in between, the two Indexes
\* have the same fileCount, totalSize and languages histogram.
C25_Idempotent ==
  (walk.pc = "returned" /\ walk.failed = {} /\ walk.tree \in DOMAIN walked)
  => Aggregates(walk.index) = walked[walk.tree]

\* The patterns of the ignore file of the tree, none when it has no such file.
OwnPatterns(tree) ==
  UNION {gitignoreLines(e.content) : e \in {f \in tree : f.relativePath = ".gitignore"}}

\* C26: throughout a traversal whose read of the ignore file did not fail,
\* the patterns that shouldIgnore applies are those of the ignore file the
\* root had when the traversal started, and none when it had no such file.
C26_PatternsOfThisRoot ==
  (walk.pc \in {"scanning", "returned"} /\ ".gitignore" \notin walk.failed)
  => gitignorePatterns = OwnPatterns(walk.tree)

\* The glob semantics: ** stands for any characters, * for any characters
\* but the separator, ? for one character, and every other character, the
\* dot among them, for itself; the whole path is matched.
RECURSIVE Glob(_, _)
Glob(pattern, path) ==
  LET from(k) == SubSeq(path, k + 1, Len(path))
  IN  IF pattern = << >> THEN path = << >>
      ELSE IF Len(pattern) >= 2 /\ pattern[1] = "*" /\ pattern[2] = "*"
        THEN \E k \in 0..Len(path) : Glob(SubSeq(pattern, 3, Len(pattern)), from(k))
      ELSE IF pattern[1] = "*"
        THEN \E k \in 0..Len(path) :
               /\ \A i \in 1..k : path[i] # "/"
               /\ Glob(Tail(pattern), from(k))
      ELSE IF pattern[1] = "?"
        THEN path # << >> /\ Glob(Tail(pattern), Tail(path))
      ELSE path # << >> /\ path[1] = pattern[1] /\ Glob(Tail(pattern), Tail(path))

\* C27: for every pattern and path over the alphabet, matchesPattern
\* returns true exactly when the pattern matches the whole path under the
\* glob semantics.
C27_MatchesGlob ==
  (call.method = "matchesPattern" /\ call.done)
  => (call.result <=> Glob(call.pattern, call.path))

\* extractSymbols has returned for a JavaScript-, TypeScript- or
\* Python-family content.
SymbolsReturned ==
  /\ call.method = "extractSymbols"
  /\ call.done
  /\ call.language \in {"typescript", "javascript", "python"}

\* C28 as stated: the result lists the functions and classes of the content
\* in the order of their positions in the content, across kinds, duplicates
\* kept.
C28_Original ==
  SymbolsReturned
  => call.result = SelectSeq(call.declared, LAMBDA d : d.kind # "text")

\* C28, amended: the result has one tag per function and class of the
\* content, duplicates kept; the fn: tags are in the order of the functions
\* in the content and the class: tags in the order of the classes; every
\* fn: tag precedes every class: tag, wherever the classes are declared.
C28_GroupedByKind ==
  SymbolsReturned
  => /\ Len(call.result) = Len(SelectSeq(call.declared, LAMBDA d : d.kind # "text"))
     /\ SelectSeq(call.result, LAMBDA s : s.kind = "fn")
          = SelectSeq(call.declared, LAMBDA d : d.kind = "fn")
     /\ SelectSeq(call.result, LAMBDA s : s.kind = "class")
          = SelectSeq(call.declared, LAMBDA d : d.kind = "class")
     /\ \A i, j \in DOMAIN call.result :
          (call.result[i].kind = "fn" /\ call.result[j].kind = "class") => i < j

\* extractSymbols has returned for a Python content that declares class A
\* between two functions f: the result is fn:f, fn:f, class:A.
C28_Witness ==
  /\ SymbolsReturned
  /\ call.language = "python"
  /\ call.declared = <<[kind |-> "fn", name |-> "f"], [kind |-> "class", name |-> "A"],
                       [kind |-> "fn", name |-> "f"]>>
  /\ call.result = <<[kind |-> "fn", name |-> "f"], [kind |-> "fn", name |-> "f"],
                     [kind |-> "class", name |-> "A"]>>

\* The ignore policy excludes the entry of the tree: shouldIgnore, with the
\* patterns of the tree's own ignore file, rejects it or a directory above it.
Excluded(entry, tree) ==
  \E e \in tree :
    /\ Len(e.parts) <= Len(entry.parts)
    /\ SubSeq(entry.parts, 1, Len(e.parts)) = e.parts
    /\ shouldIgnore(e, OwnPatterns(tree))

\* The paths of the files of the tree that are not ignored, not above the
\* size ceiling and have a supported extension.
IndexedByRule(tree) ==
  {e.relativePath : e \in {f \in tree :
     /\ f.kind = "file"
     /\ ~Excluded(f, tree)
     /\ f.size <= 500 * 1024
     /\ getLanguageFromPath(f.parts[Len(f.parts)]) # {}}}

\* C29: the Index that a walk returns without a failed readdir, stat or
\* read holds exactly the files of the tree that are not
\* ignored, not above the size ceiling and have a supported extension; for
\* the root with a.py (40 bytes, def foo():), node_modules/x.js and big.txt
\* (600 KiB) it has fileCount 1, languages {python: 1}, summary.functions 1
\* and the symbols fn:foo for a.py.
C29_ScenarioAndRule ==
  (walk.pc = "returned" /\ walk.failed = {} /\ walk.unread = {})
  => /\ IndexedPaths = IndexedByRule(walk.tree)
     /\ walk.tree = ScenarioRoot
        => /\ walk.index.fileCount = 1
           /\ walk.index.languages = ("python" :> 1)
           /\ walk.index.summary.functions = 1
           /\ \E i \in DOMAIN walk.index.files :
                /\ walk.index.files[i].relativePath = "a.py"
                /\ walk.index.files[i].symbols = <<[kind |-> "fn", name |-> "foo"]>>

\* The query occurs in the text when letter case is disregarded.
OccursIn(query, text) ==
  \E offset \in 0..(Len(text) - Len(query)) :
    \A k \in 1..Len(query) :
      toLowerCase(<<text[offset + k]>>) = toLowerCase(<<query[k]>>)

\* The query occurs in the relativePath, the content or a symbol tag.
Hit(file, query) ==
  \/ OccursIn(query, file.relativePath)
  \/ OccursIn(query, file.content)
  \/ "symbols" \in DOMAIN file /\ \E i \in DOMAIN file.symbols : OccursIn(query, file.symbols[i])

\* C30: searchFiles returns the files at the first `limit` positions of
\* index.files whose file the query occurs in (all of them when there are
\* fewer), in the order of those positions, and leaves the index as it was.
C30_FirstMatchesInOrder ==
  (call.method = "searchFiles" /\ call.done)
  => LET files == call.given.files
         hits == {i \in DOMAIN files : Hit(files[i], call.query)}
         count == IF call.limit < Cardinality(hits) THEN call.limit ELSE Cardinality(hits)
         position(k) == CHOOSE i \in hits : Cardinality({j \in hits : j < i}) = k - 1
     IN  /\ Len(call.result) = count
         /\ \A k \in 1..count : call.result[k] = files[position(k)]
         /\ call.index = call.given

\* searchFiles has returned for the query foo and the limit 1 on an index
\* whose first file matches by its symbol fn:foo alone and whose second file
\* is named Foo: the result is the first file.
C30_Witness ==
  /\ call.method = "searchFiles"
  /\ call.done
  /\ call.query = <<"f", "o", "o">>
  /\ call.limit = 1
  /\ Len(call.given.files) = 2
  /\ call.given.files[2].relativePath = <<"F", "o", "o">>
  /\ call.result = <<[relativePath |-> <<"a">>, content |-> <<"x">>,
                      symbols |-> <<(<<"f", "n", ":", "f", "o", "o">>)>>]>>

\* C31: at every point of a walk, a file whose read failed after its stat
\* succeeded is in the Index with the content '', the size stat reported and
\* its language, which the languages histogram counts; totalSize and
\* fileCount count it like every other file; and the walk goes on: when it
\* returns, every other file that nothing excluded is in the Index.
C31_UnreadFileIsIndexed ==
  /\ \A entry \in walk.tree :
       entry.relativePath \in walk.unread
       => \E i \in DOMAIN walk.index.files :
            LET file == walk.index.files[i]
            IN  /\ file.relativePath = entry.relativePath
                /\ file.content = ""
                /\ file.size = entry.size
                /\ {file.language} = getLanguageFromPath(entry.parts[Len(entry.parts)])
                /\ file.language \in DOMAIN walk.index.languages
                /\ walk.index.languages[file.language] >= 1
  /\ walk.index.totalSize = TotalSize(walk.index.files)
  /\ walk.index.fileCount = Len(walk.index.files)
  /\ walk.pc = "returned" => OthersIndexed

\* A walk has returned after the read of a.ts of 512000 bytes failed and
\* src/b.py was read: both are in the Index, with totalSize 512008.
C31_Witness ==
  /\ walk.pc = "returned"
  /\ walk.unread = {"a.ts"}
  /\ walk.failed = {}
  /\ IndexedPaths = {"a.ts", "src/b.py"}
  /\ walk.index.totalSize = 512008
  /\ walk.index.fileCount = 2

\* The patterns in force whose translation compiles.
Compiling == {p \in gitignorePatterns : ~throws(regexPattern(chars(p)))}

\* shouldIgnore, with the given patterns, rejects the entry of the tree or a
\* directory above it.
ExcludedBy(entry, tree, patterns) ==
  \E e \in tree :
    /\ Len(e.parts) <= Len(entry.parts)
    /\ SubSeq(entry.parts, 1, Len(e.parts)) = e.parts
    /\ \/ e.parts[Len(e.parts)] \in commonIgnoreFiles
       \/ \E i \in DOMAIN e.parts : e.parts[i] \in commonIgnorePaths
       \/ \E p \in patterns : test(RegExp(regexPattern(chars(p))), chars(e.relativePath))

\* C32: the Index that a walk returns without a failed readdir, stat or
\* read is the one the patterns that compile give by themselves: a pattern
\* that does not compile excludes nothing, the walk returns, and the other
\* patterns exclude what they match.
C32_MalformedPatternMatchesNothing ==
  (walk.pc = "returned" /\ walk.failed = {} /\ walk.unread = {})
  => IndexedPaths =
       {e.relativePath : e \in {f \in walk.tree :
          /\ f.kind = "file"
          /\ ~ExcludedBy(f, walk.tree, Compiling)
          /\ ~exceedsCeiling(f.size)
          /\ getLanguageFromPath(f.parts[Len(f.parts)]) # {}}}

\* A walk has returned with the patterns ( and src in force from a root with
\* a.ts and src/b.py: a.ts is in the Index and src was not entered.
C32_Witness ==
  /\ walk.pc = "returned"
  /\ walk.failed = {}
  /\ gitignorePatterns = {"(", "src"}
  /\ {"a.ts", "src/b.py"} \subseteq {e.relativePath : e \in walk.tree}
  /\ IndexedPaths = {"a.ts"}
  /\ "src" \notin walk.scanned

\* C33: in every state at most one timeout is armed, and it is the one
\* whose handle debounceTimer holds; at most one FileSystemWatcher is
\* undisposed, and it is the one that fileWatcher holds.
C33_OneTimerOneSubscription ==
  /\ Cardinality(armedTimers) <= 1
  /\ armedTimers \subseteq {debounceTimer}
  /\ subscriptions = IF fileWatcher THEN 1 ELSE 0

\* The second notification has just been delivered: one timeout is armed
\* and one subscription undisposed.
C33_Witness ==
  /\ lastOp.op = "fileChanged"
  /\ fsVersion = 3
  /\ fileWatcher
  /\ subscriptions = 1
  /\ Cardinality(armedTimers) = 1
  /\ ~isIndexing

\* C34: a timer expiry or a forceReindex on a watcher that holds no snapshot
\* starts no walk and no save, calls no subscriber and writes nothing, and
\* leaves isIndexing and the held snapshot as they were: the snapshot null,
\* and isIndexing false unless a run begun earlier is still in flight; the
\* timer expiry leaves pendingChanges as it was too.
C34_NoSnapshotNoReindex ==
  [][(lastOp'.op \in {"timerFired", "forceReindex"} /\ currentIndex = Null)
     => /\ tasks' = tasks
        /\ lastOp'.outcome # "started"
        /\ lastOp'.stored = Null
        /\ lastOp'.emitted = NoEmission
        /\ currentIndex' = Null
        /\ isIndexing' = isIndexing
        /\ isIndexing => InFlight(WatcherOrigins) > 0
        /\ lastOp'.op = "timerFired" => pendingChanges' = pendingChanges]_vars

\* The debounce timer has just expired on a watcher without a snapshot:
\* nothing is in flight, isIndexing is false and pendingChanges still true.
C34_Witness ==
  /\ lastOp.op = "timerFired" /\ lastOp.outcome = "dropped"
  /\ currentIndex = Null
  /\ pendingChanges
  /\ ~isIndexing
  /\ armedTimers = {}
  /\ tasks = EmptyBag

\* C35: when the save of a re-index settles, the held snapshot changes only
\* if saveIndex returned, and the subscriber is called only if saveIndex
\* returned, with the snapshot that was saved and is now held; when the save
\* threw, the held snapshot keeps its value and the subscriber is not called.
C35_OnlySavedSnapshotsHeld ==
  [][(lastOp'.op = "save" /\ lastOp'.origin \in WatcherOrigins)
     => /\ currentIndex' # currentIndex => lastOp'.outcome \in {"ok", "callbackThrow"}
        /\ lastOp'.emitted # NoEmission
           => /\ lastOp'.outcome \in {"ok", "callbackThrow"}
              /\ lastOp'.emitted.index = currentIndex'
              /\ lastOp'.emitted.index = lastOp'.stored
        /\ lastOp'.outcome \in {"metaFail", "dirFail"}
           => /\ currentIndex' = currentIndex
              /\ lastOp'.emitted = NoEmission]_vars

\* The save of a re-index has just thrown after writing the metadata
\* document of a newer snapshot: the watcher holds the older one and the
\* subscriber was not called.
C35_Witness ==
  /\ lastOp.op = "save" /\ lastOp.origin \in WatcherOrigins
  /\ lastOp.outcome = "dirFail"
  /\ onIndexComplete
  /\ currentIndex # Null
  /\ lastOp.stored # Null
  /\ lastOp.stored # currentIndex
  /\ lastOp.emitted = NoEmission

\* What loadIndex(workspacePath) returns when every read succeeds.
Loads(workspacePath) ==
  LET key == getWorkspaceName(workspacePath)
  IN  loadIndex(workspaces[key].metadata, workspaces[key].blobs, TRUE, {})

\* C36: workspaces are isolated in the store: a saveIndex or a deleteIndex
\* on a root changes what loadIndex returns for no other root, and loadIndex
\* of a root returns only an Index whose rootPath is that root, also for
\* roots with the same directory name or with names that sanitize alike.
C36_WorkspacesIsolated ==
  /\ [](\A a \in WorkspaceRoots : \A index \in Loads(a) : index.rootPath = a)
  /\ [][\A a \in WorkspaceRoots :
          (call'.method \in {"saveIndex", "deleteIndex"} /\ call'.workspacePath # a)
          => Loads(a)' = Loads(a)]_vars

\* The number of symbols of the files, list by list.
RECURSIVE SymbolsIn(_)
SymbolsIn(files) ==
  IF files = << >> THEN 0 ELSE Len(Head(files).symbols) + SymbolsIn(Tail(files))

\* C37: at every point of a walk, and in the Index it returns, summary.total
\* is the sum of the lengths of the files' symbol lists and
\* summary.functions + summary.classes is summary.total, every symbol being
\* tagged fn:, method: or class:.
C37_SummaryCountsSymbols ==
  /\ walk.index.summary.total = SymbolsIn(walk.index.files)
  /\ walk.index.summary.functions + walk.index.summary.classes = walk.index.summary.total
  /\ \A i \in DOMAIN walk.index.files :
       \A j \in DOMAIN walk.index.files[i].symbols :
         walk.index.files[i].symbols[j].kind \in {"fn", "method", "class"}

\* A walk has returned with D.java in the Index: one function, tagged
\* method:, and one class.
C37_Witness ==
  /\ walk.pc = "returned"
  /\ IndexedPaths = {"D.java"}
  /\ walk.unread = {}
  /\ walk.index.summary = [total |-> 2, functions |-> 1, classes |-> 1]
  /\ \E i \in DOMAIN walk.index.files :
       walk.index.files[i].symbols = <<[kind |-> "class", name |-> "D"],
                                       [kind |-> "method", name |-> "m"]>>

\* The streams of a key that can still deliver a chunk.
Unaborted(key) == {id \in DOMAIN streams : streams[id].key = key /\ Streaming(streams[id])}

\* C38: for every key at most one stream that has not been aborted is
\* running, whichever way the calls of provideInlineCompletionItems for the
\* key interleave at their awaits.
C38_OneStreamPerKey ==
  \A key \in Keys : Cardinality(Unaborted(key)) <= 1

\* C39: an invocation that a refresh command caused returns an item whose
\* insertText contains what the stream of that command had delivered by then.
C39_ReturnsStreamedText ==
  \A id \in DOMAIN invocations :
    (invocations[id].pc = "returned" /\ invocations[id].cause # Typing
     /\ invocations[id].items # << >>)
    => includes(invocations[id].items[1].insertText, invocations[id].streamed)

\* C40: every assistant row of the messages table is in the conversation in
\* which the onSendMessage call it comes from stored its user message,
\* whatever loadConversation, newConversation or deleteConversation did
\* while the response was streaming.
C40_ResponseInSameConversation ==
  \A i \in DOMAIN messages :
    messages[i].role = "assistant"
    => messages[i].conversationId = sends[messages[i].send].conversationId

====
